---- MODULE Spec2Model ----
(***************************************************************************)
(* Value codecs, level codecs and page reader of parquet-rs.               *)
(*                                                                         *)
(* Machine integers are kept at their width.  A 64-bit word is a sequence  *)
(* of four 16-bit limbs, least significant first; a 32-bit word is a       *)
(* sequence of two limbs.  Byte buffers are sequences of 0..255.           *)
(***************************************************************************)
EXTENDS Integers, Sequences, FiniteSets, TLC

VARIABLES
  kind,        \* the codec / physical type pair under test
  enc,         \* the encoder object
  dec,         \* the decoder object
  expected,    \* values put since the previous flush_buffer
  data,        \* bytes returned by the latest flush_buffer (or built page payload)
  result,      \* values returned by get since the latest set_data
  last,        \* what the latest decoder call observed and returned
  pc,          \* position of the caller
  cycle,       \* number of flush_buffer calls so far
  nputs,       \* number of put calls in the current cycle
  ngets,       \* number of get calls since the latest set_data
  whole,       \* what one get of the full length returns on a fresh decoder given `data`
  reader       \* the SerializedPageReader and the stream it reads

vars == <<kind, enc, dec, expected, data, result, last, pc, cycle, nputs, ngets, whole,
          reader>>

----------------------------------------------------------------------------
(* Small helpers                                                           *)

\* v bound to a name for the rest of an expression; v is computed first
Bind(v, In(_)) == IF v = v THEN In(v) ELSE In(v)

Min(a, b) == IF a < b THEN a ELSE b
Max(a, b) == IF a > b THEN a ELSE b

\* util::bit_util::ceil(value, divisor)
ceil(value, divisor) == (value + divisor - 1) \div divisor

Limb == 2 ^ 16
HalfLimb == 2 ^ 15

RECURSIVE SumTo(_, _, _)
\* sum of f[i] for i in lo..hi, by halves
SumTo(f, lo, hi) ==
  IF lo >= hi THEN (IF lo > hi THEN 0 ELSE f[lo])
  ELSE SumTo(f, lo, (lo + hi) \div 2) + SumTo(f, ((lo + hi) \div 2) + 1, hi)

RECURSIVE FlattenRange(_, _, _)
\* ss[lo] \o ... \o ss[hi], by halves
FlattenRange(ss, lo, hi) ==
  IF lo >= hi THEN (IF lo > hi THEN <<>> ELSE ss[lo])
  ELSE FlattenRange(ss, lo, (lo + hi) \div 2) \o FlattenRange(ss, ((lo + hi) \div 2) + 1, hi)

\* the concatenation of a sequence of sequences
Flatten(ss) == FlattenRange(ss, 1, Len(ss))

\* the number whose bit t (0..7) is b[o + t]
Pack8(b, o) ==
  ((b[o] + 2 * b[o + 1]) + (4 * b[o + 2] + 8 * b[o + 3]))
  + ((16 * b[o + 4] + 32 * b[o + 5]) + (64 * b[o + 6] + 128 * b[o + 7]))

Repeat(x, n) == [i \in 1..n |-> x]

----------------------------------------------------------------------------
(* 64-bit and 32-bit words                                                 *)

W64Zero == <<0, 0, 0, 0>>
W64Min == <<0, 0, 0, HalfLimb>>              \* i64::min_value()
W64Max == <<65535, 65535, 65535, 32767>>     \* i64::max_value()

\* usize / small non-negative number as a 64-bit word
NatToW64(n) == <<n % Limb, (n \div Limb) % Limb, 0, 0>>

\* a 64-bit word known to be below 2^31 as a number; -1 when it is not
W64ToNat(w) ==
  IF w[3] = 0 /\ w[4] = 0 /\ w[2] < HalfLimb THEN w[1] + Limb * w[2] ELSE -1

\* i64::wrapping_add
W64Add(a, b) ==
  LET s1 == a[1] + b[1]
      s2 == a[2] + b[2] + (s1 \div Limb)
      s3 == a[3] + b[3] + (s2 \div Limb)
      s4 == a[4] + b[4] + (s3 \div Limb)
  IN  <<s1 % Limb, s2 % Limb, s3 % Limb, s4 % Limb>>

\* i64::wrapping_sub: a + ~b + 1
W64Sub(a, b) ==
  LET s1 == a[1] + (65535 - b[1]) + 1
      s2 == a[2] + (65535 - b[2]) + (s1 \div Limb)
      s3 == a[3] + (65535 - b[3]) + (s2 \div Limb)
      s4 == a[4] + (65535 - b[4]) + (s3 \div Limb)
  IN  <<s1 % Limb, s2 % Limb, s3 % Limb, s4 % Limb>>

\* i32::wrapping_sub on the low 32 bits
W32Sub(a, b) ==
  LET s1 == a[1] + (65535 - b[1]) + 1
      s2 == a[2] + (65535 - b[2]) + (s1 \div Limb)
  IN  <<s1 % Limb, s2 % Limb>>

\* `x as i64` for x: i32 (sign extension)
SignExtend32(w) ==
  LET s == IF w[2] >= HalfLimb THEN 65535 ELSE 0 IN <<w[1], w[2], s, s>>

\* `x as u32 as u64` (zero extension)
ZeroExtend32(w) == <<w[1], w[2], 0, 0>>

\* `x as i32` for x: i64 (truncation)
Truncate32(w) == <<w[1], w[2]>>

\* signed comparison of two i64
W64Less(a, b) ==
  LET ta == IF a[4] >= HalfLimb THEN a[4] - Limb ELSE a[4]
      tb == IF b[4] >= HalfLimb THEN b[4] - Limb ELSE b[4]
  IN  \/ ta < tb
      \/ ta = tb /\ a[3] < b[3]
      \/ ta = tb /\ a[3] = b[3] /\ a[2] < b[2]
      \/ ta = tb /\ a[3] = b[3] /\ a[2] = b[2] /\ a[1] < b[1]

\* cmp::min / cmp::max on i64
W64MinOf(a, b) == IF W64Less(b, a) THEN b ELSE a
W64MaxOf(a, b) == IF W64Less(a, b) THEN b ELSE a

\* bit i (0 = least significant) of a 64-bit word
W64Bit(w, i) == (w[(i \div 16) + 1] \div (2 ^ (i % 16))) % 2

\* number of significant bits of a 16-bit limb
BitLen16(v) == CHOOSE k \in 0..16 : v < 2 ^ k /\ (k = 0 \/ v >= 2 ^ (k - 1))

\* util::bit_util::num_required_bits(x: u64)
num_required_bits(x) ==
  IF x[4] # 0 THEN 48 + BitLen16(x[4])
  ELSE IF x[3] # 0 THEN 32 + BitLen16(x[3])
  ELSE IF x[2] # 0 THEN 16 + BitLen16(x[2])
  ELSE BitLen16(x[1])

\* util::bit_util::log2(x): ceil(log2(x)) for x >= 1
log2(x) == CHOOSE k \in 0..31 : (x <= 2 ^ k) /\ (k = 0 \/ x > 2 ^ (k - 1))

\* the 64-bit word whose bit i is B[i + 1] for i < n and 0 above
W64FromBits(B, n) ==
  Bind([t \in 1..64 |-> IF t <= n THEN B[t] ELSE 0], LAMBDA P :
      [j \in 1..4 |-> Pack8(P, 16 * j - 15) + 256 * Pack8(P, 16 * j - 7)])

\* (v << 1) ^ (v >> 63) as u64
ZigZag(v) ==
  Bind(W64Add(v, v), LAMBDA dbl :
      IF v[4] >= HalfLimb THEN [j \in 1..4 |-> 65535 - dbl[j]] ELSE dbl)

\* ((u >> 1) as i64) ^ -((u & 1) as i64)
UnZigZag(u) ==
  LET half == [j \in 1..4 |->
                 (u[j] \div 2) + (IF j < 4 THEN (u[j + 1] % 2) * HalfLimb ELSE 0)]
  IN  IF u[1] % 2 = 1 THEN [j \in 1..4 |-> 65535 - half[j]] ELSE half

----------------------------------------------------------------------------
(* util::bit_util::BitWriter: LSB-first bit packing into a byte buffer of   *)
(* max_bytes bytes.  `bytes` are the completed bytes, `pend` the bits of    *)
(* the byte being filled (fewer than 8).                                    *)

BitWriter_new(max_bytes) == [bytes |-> <<>>, pend |-> <<>>, max_bytes |-> max_bytes]

\* BitWriter::new_from_buf(buffer, start): writes begin at byte `start`
BitWriter_new_from_buf(buffer, start) ==
  [bytes |-> SubSeq(buffer, 1, start), pend |-> <<>>, max_bytes |-> Len(buffer)]

BitWriter_bitpos(w) == 8 * Len(w.bytes) + Len(w.pend)

\* the bytes of a bit sequence whose length is a multiple of 8
PackBytes(bits) == [m \in 1..(Len(bits) \div 8) |-> Pack8(bits, 8 * m - 7)]

\* BitWriter::put_value(v, num_bits) for each v of vals in turn; a value that
\* does not fit in the remaining capacity is refused whole.  Bit(v, i) is bit
\* i of v.  Returns the writer and the number of values accepted.
BitWriter_put_values(w, vals, num_bits, Bit(_, _)) ==
  LET room == w.max_bytes * 8 - BitWriter_bitpos(w)
      k    == IF num_bits = 0 THEN Len(vals) ELSE Min(Len(vals), room \div num_bits)
      all  == w.pend \o
              [i \in 1..(k * num_bits) |->
                 Bit(vals[((i - 1) \div num_bits) + 1], (i - 1) % num_bits)]
      full == 8 * (Len(all) \div 8)
  IN  [w |-> [w EXCEPT !.bytes = @ \o PackBytes(SubSeq(all, 1, full)),
                       !.pend  = SubSeq(all, full + 1, Len(all))],
       accepted |-> k]

\* BitWriter::flush(): zero-pads the current byte
BitWriter_flush(w) ==
  IF w.pend = <<>> THEN w
  ELSE [w EXCEPT !.bytes = @ \o PackBytes(w.pend \o Repeat(0, 8 - Len(w.pend))),
                 !.pend  = <<>>]

\* BitWriter::put_aligned for a sequence of bytes written as one value
BitWriter_put_aligned(w, bs) ==
  Bind(BitWriter_flush(w), LAMBDA f :
      IF Len(f.bytes) + Len(bs) > f.max_bytes
      THEN [w |-> f, ok |-> FALSE]
      ELSE [w |-> [f EXCEPT !.bytes = @ \o bs], ok |-> TRUE])

\* the base-128 varint bytes of a u64
VlqBytes(u) ==
  Bind(num_required_bits(u), LAMBDA nb :
      Bind(IF nb = 0 THEN 1 ELSE ceil(nb, 7), LAMBDA ng :
      [g \in 1..ng |->
         Pack8([t \in 1..8 |->
                  IF t <= 7 /\ 7 * (g - 1) + t <= 64 THEN W64Bit(u, 7 * (g - 1) + t - 1)
                  ELSE 0], 1)
         + (IF g < ng THEN 128 ELSE 0)]))

\* put_aligned(b, 1) for each byte of bs; a refused byte is dropped: the
\* first put aligns the stream, and the bytes that fit are the leading ones
BitWriter_put_bytes_each(w, bs) ==
  IF bs = <<>> THEN w
  ELSE Bind(BitWriter_flush(w), LAMBDA f :
           [f EXCEPT !.bytes = @ \o SubSeq(bs, 1, Min(Len(bs), f.max_bytes - Len(f.bytes)))])

\* BitWriter::put_vlq_int(v: u64)
BitWriter_put_vlq_int(w, u) == BitWriter_put_bytes_each(w, VlqBytes(u))

\* BitWriter::put_zigzag_vlq_int(v: i64)
BitWriter_put_zigzag_vlq_int(w, v) == BitWriter_put_vlq_int(w, ZigZag(v))

\* BitWriter::get_next_byte_ptr(num_bytes): aligned zero-filled reservation;
\* ptr is the index of its first byte in `bytes`
BitWriter_get_next_byte_ptr(w, num_bytes) ==
  Bind(BitWriter_flush(w), LAMBDA f :
      IF Len(f.bytes) + num_bytes > f.max_bytes
      THEN [w |-> f, ok |-> FALSE, ptr |-> 0]
      ELSE [w |-> [f EXCEPT !.bytes = @ \o Repeat(0, num_bytes)],
            ok |-> TRUE, ptr |-> Len(f.bytes) + 1])

\* BitWriter::clear()
BitWriter_clear(w) == [w EXCEPT !.bytes = <<>>, !.pend = <<>>]

\* buffer()[0..byte_offset()]
BitWriter_written(w) == w.bytes

----------------------------------------------------------------------------
(* util::bit_util::BitReader over a byte buffer; pos is the bit position.   *)

BitReader_new(buf) == [data |-> buf, pos |-> 0]

ByteBit(buf, p) == (buf[(p \div 8) + 1] \div (2 ^ (p % 8))) % 2

\* BitReader::get_value::<u64>(num_bits)
BitReader_get_value(r, num_bits) ==
  IF r.pos + num_bits > 8 * Len(r.data)
  THEN [ok |-> FALSE, v |-> W64Zero, r |-> r]
  ELSE [ok |-> TRUE,
        v  |-> W64FromBits([i \in 1..num_bits |-> ByteBit(r.data, r.pos + i - 1)], num_bits),
        r  |-> [r EXCEPT !.pos = @ + num_bits]]

\* BitReader::get_aligned::<u8>(1)
BitReader_get_aligned_u8(r) ==
  Bind(ceil(r.pos, 8), LAMBDA at :
      IF at + 1 > Len(r.data)
      THEN [ok |-> FALSE, v |-> 0, r |-> r]
      ELSE [ok |-> TRUE, v |-> r.data[at + 1], r |-> [r EXCEPT !.pos = 8 * (at + 1)]])

MAX_VLQ_BYTE_LEN == 10

\* the bytes of one varint starting at the reader's position: get_aligned(1)
\* until a byte without the continuation bit, MAX_VLQ_BYTE_LEN bytes at most;
\* the read fails when the input ends first
VlqRead(r) ==
  LET at    == ceil(r.pos, 8)
      avail == Max(0, Len(r.data) - at)
      ends  == {k \in 1..Min(avail, MAX_VLQ_BYTE_LEN) :
                  r.data[at + k] < 128 \/ k = MAX_VLQ_BYTE_LEN}
  IN  IF ends = {}
      THEN [ok |-> FALSE, bs |-> SubSeq(r.data, at + 1, at + avail),
            r  |-> IF avail = 0 THEN r ELSE [r EXCEPT !.pos = 8 * (at + avail)]]
      ELSE Bind(CHOOSE k \in ends : \A j \in ends : k <= j, LAMBDA n :
               [ok |-> TRUE, bs |-> SubSeq(r.data, at + 1, at + n),
                r  |-> [r EXCEPT !.pos = 8 * (at + n)]])

\* BitReader::get_vlq_int()
BitReader_get_vlq_int(r) ==
  Bind(VlqRead(r), LAMBDA x :
      [ok |-> x.ok,
       v  |-> W64FromBits([i \in 1..(7 * Len(x.bs)) |->
                             ((x.bs[((i - 1) \div 7) + 1] % 128) \div (2 ^ ((i - 1) % 7))) % 2],
                          Min(64, 7 * Len(x.bs))),
       r  |-> x.r])

\* BitReader::get_zigzag_vlq_int()
BitReader_get_zigzag_vlq_int(r) ==
  Bind(BitReader_get_vlq_int(r), LAMBDA x :    [ok |-> x.ok, v |-> UnZigZag(x.v), r |-> x.r])

\* BitReader::get_byte_offset()
BitReader_get_byte_offset(r) == ceil(r.pos, 8)

----------------------------------------------------------------------------
(* DELTA_BINARY_PACKED encoder (encoding.rs)                                *)

MAX_PAGE_HEADER_WRITER_SIZE == 32
MAX_BIT_WRITER_SIZE == 10485760
DEFAULT_BLOCK_SIZE == 128
DEFAULT_NUM_MINI_BLOCKS == 4

\* DeltaBitPackEncoderConversion::as_i64 applied to one value of type T
as_i64(T, value) == IF T = "INT32" THEN SignExtend32(value) ELSE value

\* the subtraction saturating at the bounds of the type in place of wrapping
subtract_saturating(T, left, right) ==
  IF T = "INT32"
  THEN Bind(W32Sub(Truncate32(left), Truncate32(right)), LAMBDA d :
           IF /\ (left[2] >= HalfLimb) # (right[2] >= HalfLimb)
              /\ (d[2] >= HalfLimb) # (left[2] >= HalfLimb)
           THEN SignExtend32(IF left[2] >= HalfLimb THEN <<0, HalfLimb>>
                             ELSE <<65535, 32767>>)
           ELSE SignExtend32(d))
  ELSE Bind(W64Sub(left, right), LAMBDA d :
           IF /\ (left[4] >= HalfLimb) # (right[4] >= HalfLimb)
              /\ (d[4] >= HalfLimb) # (left[4] >= HalfLimb)
           THEN IF left[4] >= HalfLimb THEN W64Min ELSE W64Max
           ELSE d)

\* DeltaBitPackEncoderConversion::subtract
subtract(T, left, right) ==
  IF T = "INT32"
  THEN SignExtend32(W32Sub(Truncate32(left), Truncate32(right)))
  ELSE W64Sub(left, right)

\* subtract_u64 that widens the i32 difference as a signed value
subtract_u64_sign_extending(T, left, right) ==
  IF T = "INT32"
  THEN SignExtend32(W32Sub(Truncate32(left), Truncate32(right)))
  ELSE W64Sub(left, right)

\* DeltaBitPackEncoderConversion::subtract_u64
subtract_u64(T, left, right) ==
  IF T = "INT32"
  THEN ZeroExtend32(W32Sub(Truncate32(left), Truncate32(right)))
  ELSE W64Sub(left, right)

DeltaBitPackEncoder_new(T) ==
  [T                  |-> T,
   page_header_writer |-> BitWriter_new(MAX_PAGE_HEADER_WRITER_SIZE),
   bit_writer         |-> BitWriter_new(MAX_BIT_WRITER_SIZE),
   total_values       |-> 0,
   first_value        |-> W64Zero,
   current_value      |-> W64Zero,
   block_size         |-> DEFAULT_BLOCK_SIZE,
   mini_block_size    |-> DEFAULT_BLOCK_SIZE \div DEFAULT_NUM_MINI_BLOCKS,
   num_mini_blocks    |-> DEFAULT_NUM_MINI_BLOCKS,
   values_in_block    |-> 0,
   deltas             |-> Repeat(W64Zero, DEFAULT_BLOCK_SIZE)]

\* DeltaBitPackEncoder::write_page_header
write_page_header(e) ==
  LET w1 == BitWriter_put_vlq_int(e.page_header_writer, NatToW64(e.block_size))
      w2 == BitWriter_put_vlq_int(w1, NatToW64(e.num_mini_blocks))
      w3 == BitWriter_put_vlq_int(w2, NatToW64(e.total_values))
      w4 == BitWriter_put_zigzag_vlq_int(w3, e.first_value)
  IN  [e EXCEPT !.page_header_writer = w4]

\* min_delta = cmp::min(min_delta, deltas[i]) for i in lo..hi (1-based)
FoldMin(ds, lo, hi, acc) ==
  Bind({ds[i] : i \in lo..hi} \cup {acc}, LAMBDA S :
      CHOOSE m \in S : \A x \in S : ~W64Less(x, m))

\* max_delta = cmp::max(max_delta, deltas[i]) for i in lo..hi (1-based)
FoldMax(ds, lo, hi, acc) ==
  Bind({ds[i] : i \in lo..hi} \cup {acc}, LAMBDA S :
      CHOOSE m \in S : \A x \in S : ~W64Less(m, x))

RECURSIVE flush_mini_blocks(_, _, _, _)
\* the loop `for i in 0..self.num_mini_blocks` of flush_block_values;
\* ptr is the index of the reserved width bytes
flush_mini_blocks(e, ptr, min_delta, i) ==
  LET n == Min(e.mini_block_size, e.values_in_block)
  IN  IF i >= e.num_mini_blocks \/ n = 0 THEN e
      ELSE
        LET base      == i * e.mini_block_size
            max_delta == FoldMax(e.deltas, base + 1, base + n, W64Min)
            IN Bind(num_required_bits(subtract_u64(e.T, max_delta, min_delta)), LAMBDA bit_width :
            LET vals      == [j \in 1..e.mini_block_size |->
                            IF j <= n
                            THEN subtract_u64(e.T, e.deltas[base + j], min_delta)
                            ELSE W64Zero]
            patched   == [e.bit_writer EXCEPT !.bytes[ptr + i] = bit_width]
            written   == BitWriter_put_values(patched, vals, bit_width, W64Bit).w
        IN  flush_mini_blocks(
              [e EXCEPT !.bit_writer = written, !.values_in_block = @ - n],
              ptr, min_delta, i + 1))

\* DeltaBitPackEncoder::flush_block_values
flush_block_values(e) ==
  IF e.values_in_block = 0 THEN [ok |-> TRUE, e |-> e]
  ELSE
    Bind(FoldMin(e.deltas, 1, e.values_in_block, W64Max), LAMBDA min_delta :
        LET w1        == BitWriter_put_zigzag_vlq_int(e.bit_writer, min_delta)
        IN Bind(BitWriter_get_next_byte_ptr(w1, e.num_mini_blocks), LAMBDA p :
        IF ~p.ok THEN [ok |-> FALSE, e |-> [e EXCEPT !.bit_writer = p.w]]
        ELSE [ok |-> TRUE,
              e  |-> flush_mini_blocks([e EXCEPT !.bit_writer = p.w], p.ptr, min_delta, 0)]))

RECURSIVE DeltaBitPackEncoder_put_loop(_, _, _)
\* the loop `while idx < values.len()` of put (idx is 0-based), taken one
\* block at a time: the k values that still fit in the current block are
\* stored, and the block is flushed when it is full
DeltaBitPackEncoder_put_loop(e, values, idx) ==
  IF idx >= Len(values) THEN [ok |-> TRUE, e |-> e]
  ELSE
    LET k    == Min(Len(values) - idx, e.block_size - e.values_in_block)
        prev == [j \in 1..k |->
                   IF j = 1 THEN e.current_value ELSE as_i64(e.T, values[idx + j - 1])]
        vib  == e.values_in_block
        IN Bind([e EXCEPT !.deltas =
                            [p \in 1..Len(e.deltas) |->
                               IF p > vib /\ p <= vib + k
                               THEN subtract(e.T, as_i64(e.T, values[idx + p - vib]),
                                             prev[p - vib])
                               ELSE e.deltas[p]],
                          !.current_value = as_i64(e.T, values[idx + k]),
                          !.values_in_block = @ + k], LAMBDA e1 :
        IF e1.values_in_block = e1.block_size
        THEN Bind(flush_block_values(e1), LAMBDA f :
                 IF ~f.ok THEN f
                 ELSE DeltaBitPackEncoder_put_loop(f.e, values, idx + k))
        ELSE DeltaBitPackEncoder_put_loop(e1, values, idx + k))

\* impl Encoder<T> for DeltaBitPackEncoder<T>: put
DeltaBitPackEncoder_put(e, values) ==
  IF values = <<>> THEN [ok |-> TRUE, e |-> e]
  ELSE
    LET first == e.total_values = 0
        e1    == IF first
                 THEN [e EXCEPT !.first_value = as_i64(e.T, values[1]),
                                !.current_value = as_i64(e.T, values[1])]
                 ELSE e
        e2    == [e1 EXCEPT !.total_values = @ + Len(values)]
    IN  DeltaBitPackEncoder_put_loop(e2, values, IF first THEN 1 ELSE 0)

\* flush_buffer without the reset of total_values
flush_buffer_keeping_total_values(e) ==
  Bind(flush_block_values(e), LAMBDA f :
      IF ~f.ok THEN [ok |-> FALSE, e |-> f.e, buffer |-> <<>>]
      ELSE
        Bind(write_page_header(f.e), LAMBDA h :
            Bind(BitWriter_flush(h.page_header_writer), LAMBDA hw :
            Bind(BitWriter_flush(h.bit_writer), LAMBDA bw :
            [ok     |-> TRUE,
             buffer |-> BitWriter_written(hw) \o BitWriter_written(bw),
             e      |-> [h EXCEPT !.page_header_writer = BitWriter_clear(hw),
                                  !.bit_writer = BitWriter_clear(bw),
                                  !.first_value = W64Zero,
                                  !.current_value = W64Zero,
                                  !.values_in_block = 0]]))))

\* impl Encoder<T> for DeltaBitPackEncoder<T>: flush_buffer
DeltaBitPackEncoder_flush_buffer(e) ==
  Bind(flush_block_values(e), LAMBDA f :
      IF ~f.ok THEN [ok |-> FALSE, e |-> f.e, buffer |-> <<>>]
      ELSE
        Bind(write_page_header(f.e), LAMBDA h :
            Bind(BitWriter_flush(h.page_header_writer), LAMBDA hw :
            Bind(BitWriter_flush(h.bit_writer), LAMBDA bw :
            [ok     |-> TRUE,
             buffer |-> BitWriter_written(hw) \o BitWriter_written(bw),
             e      |-> [h EXCEPT !.page_header_writer = BitWriter_clear(hw),
                                  !.bit_writer = BitWriter_clear(bw),
                                  !.total_values = 0,
                                  !.first_value = W64Zero,
                                  !.current_value = W64Zero,
                                  !.values_in_block = 0]]))))

----------------------------------------------------------------------------
(* DELTA_BINARY_PACKED decoder (decoding.rs).  A decoder call ends "ok",    *)
(* "err" (a Result::Err returned to the caller) or "panic" (the program     *)
(* aborts).                                                                 *)

DeltaBitPackDecoder_new(T) ==
  [T                         |-> T,
   bit_reader                |-> BitReader_new(<<>>),
   initialized               |-> FALSE,
   num_values                |-> 0,
   num_mini_blocks           |-> 0,
   values_per_mini_block     |-> 0,
   values_current_mini_block |-> 0,
   first_value               |-> W64Zero,
   first_value_read          |-> FALSE,
   min_delta                 |-> W64Zero,
   mini_block_idx            |-> 0,
   delta_bit_width           |-> 0,
   delta_bit_widths          |-> <<>>,
   current_value             |-> W64Zero]

\* DeltaBitPackDecoder::get_offset
DeltaBitPackDecoder_get_offset(d) == BitReader_get_byte_offset(d.bit_reader)

RECURSIVE read_widths(_, _, _)
\* the loop `for _ in 0..self.num_mini_blocks` of init_block
read_widths(r, n, widths) ==
  IF n <= 0 THEN [ok |-> TRUE, r |-> r, widths |-> widths]
  ELSE Bind(BitReader_get_aligned_u8(r), LAMBDA b :
           IF ~b.ok THEN [ok |-> FALSE, r |-> r, widths |-> widths]
           ELSE read_widths(b.r, n - 1, Append(widths, b.v)))

\* DeltaBitPackDecoder::init_block
init_block(d) ==
  IF ~d.initialized THEN [st |-> "panic", d |-> d]
  ELSE
    Bind(BitReader_get_zigzag_vlq_int(d.bit_reader), LAMBDA m :
        IF ~m.ok THEN [st |-> "err", d |-> d]
        ELSE
          LET d1 == [d EXCEPT !.min_delta = m.v, !.bit_reader = m.r]
              IN Bind(read_widths(m.r, d.num_mini_blocks, <<>>), LAMBDA ws :
              IF ~ws.ok THEN [st |-> "err", d |-> [d1 EXCEPT !.bit_reader = ws.r]]
              ELSE IF ws.widths = <<>> THEN [st |-> "panic", d |-> d1]
              ELSE [st |-> "ok",
                    d  |-> [d1 EXCEPT !.bit_reader = ws.r,
                                      !.delta_bit_widths = ws.widths,
                                      !.mini_block_idx = 0,
                                      !.delta_bit_width = ws.widths[1],
                                      !.values_current_mini_block =
                                          d.values_per_mini_block]]))

\* impl Decoder<T> for DeltaBitPackDecoder<T>: set_data
DeltaBitPackDecoder_set_data(d, buf) ==
  Bind([d EXCEPT !.bit_reader = BitReader_new(buf), !.initialized = TRUE], LAMBDA d0 :
      Bind(BitReader_get_vlq_int(d0.bit_reader), LAMBDA bs :
      Bind(BitReader_get_vlq_int(bs.r), LAMBDA nm :
      Bind(BitReader_get_vlq_int(nm.r), LAMBDA nv :
      Bind(BitReader_get_zigzag_vlq_int(nv.r), LAMBDA fv :
      IF ~bs.ok THEN [st |-> "err", d |-> d0]
      ELSE IF ~nm.ok THEN [st |-> "err", d |-> [d0 EXCEPT !.bit_reader = bs.r]]
      ELSE IF ~nv.ok
        THEN [st |-> "err",
              d  |-> [d0 EXCEPT !.bit_reader = nm.r,
                                !.num_mini_blocks = W64ToNat(nm.v)]]
      ELSE IF ~fv.ok
        THEN [st |-> "err",
              d  |-> [d0 EXCEPT !.bit_reader = nv.r,
                                !.num_mini_blocks = W64ToNat(nm.v),
                                !.num_values = W64ToNat(nv.v)]]
      ELSE
        Bind([d0 EXCEPT !.bit_reader = fv.r,
                             !.num_mini_blocks = W64ToNat(nm.v),
                             !.num_values = W64ToNat(nv.v),
                             !.first_value = fv.v,
                             !.first_value_read = FALSE,
                             !.mini_block_idx = 0,
                             !.delta_bit_widths = <<>>,
                             !.values_current_mini_block = 0], LAMBDA d1 :
            IF d1.num_mini_blocks = 0 THEN [st |-> "panic", d |-> d1]
            ELSE
              Bind(W64ToNat(bs.v) \div d1.num_mini_blocks, LAMBDA vpm :
                  IF vpm % 8 # 0
                  THEN [st |-> "panic", d |-> [d1 EXCEPT !.values_per_mini_block = vpm]]
                  ELSE [st |-> "ok", d |-> [d1 EXCEPT !.values_per_mini_block = vpm]])))))))

\* DeltaBitPackDecoderConversion::set_decoded_value: the value stored in the buffer
set_decoded_value(T, value) == IF T = "INT32" THEN Truncate32(value) ELSE value

\* the step of get's loop that moves to the next mini block or block
next_mini_block(d) ==
  IF d.values_current_mini_block # 0 THEN [st |-> "ok", d |-> d]
  ELSE
    LET d1 == [d EXCEPT !.mini_block_idx = @ + 1]
    IN  IF d1.mini_block_idx < Len(d1.delta_bit_widths)
        THEN [st |-> "ok",
              d  |-> [d1 EXCEPT !.delta_bit_width =
                                    d1.delta_bit_widths[d1.mini_block_idx + 1],
                                !.values_current_mini_block = d1.values_per_mini_block]]
        ELSE init_block(d1)

RECURSIVE delta_running_values(_, _, _, _, _)
\* current_value after each of the deltas gs[lo..hi], by halves:
\* current_value = current_value.wrapping_add(min_delta).wrapping_add(delta)
delta_running_values(cur, min_delta, gs, lo, hi) ==
  IF lo > hi THEN <<>>
  ELSE IF lo = hi THEN <<W64Add(W64Add(cur, min_delta), gs[lo])>>
  ELSE Bind(delta_running_values(cur, min_delta, gs, lo, (lo + hi) \div 2), LAMBDA left :
           left \o delta_running_values(left[Len(left)], min_delta, gs,
                                        ((lo + hi) \div 2) + 1, hi))

\* longest run of get's loop that is taken in one step
MaxRun == DEFAULT_BLOCK_SIZE \div DEFAULT_NUM_MINI_BLOCKS

\* one turn of the loop `for i in 0..num_values` of get; s.out is
\* buffer[0..s.i].  The iterations that read from the same mini block are
\* taken together: k deltas are due, m of them can be read before the input
\* ends.  done once the loop is left.
DeltaBitPackDecoder_get_step(s, num_values) ==
  IF s.done THEN s
  ELSE IF s.i >= num_values THEN [s EXCEPT !.done = TRUE]
  ELSE IF ~s.d.first_value_read
  THEN [s EXCEPT !.d = [@ EXCEPT !.current_value = s.d.first_value,
                                 !.first_value_read = TRUE],
                 !.i = @ + 1,
                 !.out = Append(@, set_decoded_value(s.d.T, s.d.first_value))]
  ELSE
    Bind(next_mini_block(s.d), LAMBDA b :
        IF b.st # "ok" THEN [st |-> b.st, d |-> b.d, i |-> s.i, out |-> s.out, done |-> TRUE]
        ELSE IF b.d.delta_bit_width > 64
             THEN [st |-> "panic", d |-> b.d, i |-> s.i, out |-> s.out, done |-> TRUE]
        ELSE
          LET w    == b.d.delta_bit_width
              vcm  == b.d.values_current_mini_block
              k    == Min(num_values - s.i,
                          IF vcm > 0 /\ vcm < MaxRun THEN vcm ELSE MaxRun)
              room == 8 * Len(b.d.bit_reader.data) - b.d.bit_reader.pos
              m    == IF w = 0 THEN k ELSE Min(k, room \div w)
              gs   == [j \in 1..m |->
                         BitReader_get_value(
                           [b.d.bit_reader EXCEPT !.pos = @ + (j - 1) * w], w).v]
          IN  Bind(delta_running_values(b.d.current_value, b.d.min_delta, gs, 1, m),
                   LAMBDA curs :
                  [st   |-> IF m < k THEN "err" ELSE "ok",
                   d    |-> [b.d EXCEPT !.bit_reader.pos = @ + m * w,
                                        !.current_value = IF m = 0 THEN @ ELSE curs[m],
                                        !.values_current_mini_block = @ - m],
                   i    |-> s.i + k,
                   out  |-> s.out \o [j \in 1..m |-> set_decoded_value(s.d.T, curs[j])],
                   done |-> m < k]))

RECURSIVE DeltaBitPackDecoder_get_loop(_, _, _)
\* at most `turns` turns of get's loop, by halves
DeltaBitPackDecoder_get_loop(s, num_values, turns) ==
  IF s.done THEN s
  ELSE IF turns <= 1 THEN DeltaBitPackDecoder_get_step(s, num_values)
  ELSE DeltaBitPackDecoder_get_loop(DeltaBitPackDecoder_get_loop(s, num_values, turns \div 2),
                                   num_values, turns - (turns \div 2))

\* turns that get's loop takes when every mini block holds MaxRun values or
\* more: the first value, a started mini block, the whole ones, and the exit
DeltaBitPackDecoder_get_turns(num_values) == (num_values \div MaxRun) + 4

\* impl Decoder<T> for DeltaBitPackDecoder<T>: get with a buffer of buffer_len slots
DeltaBitPackDecoder_get(d, buffer_len) ==
  IF ~d.initialized THEN [st |-> "panic", d |-> d, ret |-> 0, out |-> <<>>]
  ELSE
    Bind(Min(buffer_len, d.num_values), LAMBDA num_values :
        Bind(DeltaBitPackDecoder_get_loop(
               [st |-> "ok", d |-> d, i |-> 0, out |-> <<>>, done |-> FALSE],
               num_values, DeltaBitPackDecoder_get_turns(num_values)), LAMBDA t :
            Bind(IF t.done THEN t
                 ELSE DeltaBitPackDecoder_get_loop(t, num_values, num_values + 1), LAMBDA s :
                IF s.st = "ok"
                THEN [st |-> "ok", d |-> [s.d EXCEPT !.num_values = @ - num_values],
                      ret |-> num_values, out |-> s.out]
                ELSE [st |-> s.st, d |-> s.d, ret |-> 0, out |-> s.out])))

----------------------------------------------------------------------------
(* PLAIN encoder (encoding.rs).  A value of INT32 / FLOAT is two limbs, of  *)
(* INT64 / DOUBLE four, of INT96 six (three u32); a BOOL is 0 or 1; a       *)
(* BYTE_ARRAY or FIXED_LEN_BYTE_ARRAY value is its sequence of bytes.       *)

\* mem::size_of::<T::T>() for the types served by the default impls
size_of(T) == IF T \in {"INT32", "FLOAT"} THEN 4 ELSE 8

\* the bytes of a value in memory (little-endian target)
MemBytes(v) ==
  [i \in 1..(2 * Len(v)) |->
     IF i % 2 = 1 THEN v[(i + 1) \div 2] % 256 ELSE v[i \div 2] \div 256]

\* the value whose bytes in memory are bs
FromMemBytes(bs) == [j \in 1..(Len(bs) \div 2) |-> bs[2 * j - 1] + 256 * bs[2 * j]]

\* `len as u32` in little-endian bytes
U32Bytes(n) == <<n % 256, (n \div 256) % 256, (n \div 65536) % 256, n \div 16777216>>

\* read_num_bytes!(u32, 4, src)
U32FromBytes(bs) == bs[1] + 256 * bs[2] + 65536 * bs[3] + 16777216 * bs[4]

PLAIN_BIT_WRITER_SIZE == 256

\* PlainEncoder::new(desc, mem_tracker, vec!())
PlainEncoder_new(T) ==
  [T |-> T, buffer |-> <<>>, bit_writer |-> BitWriter_new(PLAIN_BIT_WRITER_SIZE)]

BoolBit(v, i) == v

\* the bytes PlainEncoder::put writes for one value of a variable-size type
PlainValueBytes(T, v) ==
  IF T = "BYTE_ARRAY" THEN U32Bytes(Len(v)) \o v
  ELSE IF T = "FIXED_LEN_BYTE_ARRAY" THEN v
  ELSE MemBytes(v)

\* impl Encoder for PlainEncoder: put (default impl and the four specialisations)
PlainEncoder_put(e, values) ==
  IF e.T = "BOOL"
  THEN [ok |-> TRUE,
        e  |-> [e EXCEPT !.bit_writer = BitWriter_put_values(@, values, 1, BoolBit).w]]
  ELSE IF e.T \in {"INT32", "INT64", "FLOAT", "DOUBLE"}
  THEN Bind(size_of(e.T), LAMBDA sz :
           [ok |-> TRUE,
            e  |-> [e EXCEPT !.buffer = @ \o
                      [i \in 1..(sz * Len(values)) |->
                         MemBytes(values[((i - 1) \div sz) + 1])[((i - 1) % sz) + 1]]]])
  ELSE [ok |-> TRUE,
        e  |-> [e EXCEPT !.buffer = @ \o
                  Flatten([i \in 1..Len(values) |-> PlainValueBytes(e.T, values[i])])]]

\* impl Encoder for PlainEncoder: flush_buffer
PlainEncoder_flush_buffer(e) ==
  Bind(BitWriter_flush(e.bit_writer), LAMBDA bw :
      [ok     |-> TRUE,
       buffer |-> e.buffer \o BitWriter_written(bw),
       e      |-> [e EXCEPT !.buffer = <<>>, !.bit_writer = BitWriter_clear(bw)]])

----------------------------------------------------------------------------
(* PLAIN decoder (decoding.rs)                                              *)

PlainDecoder_new(T, type_length) ==
  [T |-> T, num_values |-> 0, start |-> 0, type_length |-> type_length,
   data |-> <<>>, has_data |-> FALSE,
   bit_reader |-> BitReader_new(<<>>), has_bit_reader |-> FALSE]

\* set_data that leaves start where the last get left it
set_data_keeping_start(d, buf, num_values) ==
  IF d.T = "BOOL"
  THEN [st |-> "ok",
        d  |-> [d EXCEPT !.num_values = num_values,
                         !.bit_reader = BitReader_new(buf), !.has_bit_reader = TRUE]]
  ELSE [st |-> "ok",
        d  |-> [d EXCEPT !.num_values = num_values,
                         !.data = buf, !.has_data = TRUE]]

\* impl Decoder for PlainDecoder: set_data (default impl and BoolType)
PlainDecoder_set_data(d, buf, num_values) ==
  IF d.T = "BOOL"
  THEN [st |-> "ok",
        d  |-> [d EXCEPT !.num_values = num_values,
                         !.bit_reader = BitReader_new(buf), !.has_bit_reader = TRUE]]
  ELSE [st |-> "ok",
        d  |-> [d EXCEPT !.num_values = num_values, !.start = 0,
                         !.data = buf, !.has_data = TRUE]]

\* get of a fixed-width type that leaves num_values as it was
get_fixed_keeping_num_values(d, buffer_len, sz) ==
  LET num_values      == Min(buffer_len, d.num_values)
      bytes_left      == Len(d.data) - d.start
      bytes_to_decode == sz * num_values
  IN  IF ~d.has_data THEN [st |-> "panic", d |-> d, ret |-> 0, out |-> <<>>]
      ELSE IF bytes_left < bytes_to_decode
      THEN [st |-> "err", d |-> d, ret |-> 0, out |-> <<>>]
      ELSE [st  |-> "ok",
            d   |-> [d EXCEPT !.start = @ + bytes_to_decode],
            ret |-> num_values,
            out |-> [i \in 1..num_values |->
                       FromMemBytes(SubSeq(d.data, d.start + sz * (i - 1) + 1,
                                           d.start + sz * i))]]

\* get of a fixed-width type that leaves start as it was
get_fixed_keeping_start(d, buffer_len, sz) ==
  LET num_values      == Min(buffer_len, d.num_values)
      bytes_left      == Len(d.data) - d.start
      bytes_to_decode == sz * num_values
  IN  IF ~d.has_data THEN [st |-> "panic", d |-> d, ret |-> 0, out |-> <<>>]
      ELSE IF bytes_left < bytes_to_decode
      THEN [st |-> "err", d |-> d, ret |-> 0, out |-> <<>>]
      ELSE [st  |-> "ok",
            d   |-> [d EXCEPT !.num_values = @ - num_values],
            ret |-> num_values,
            out |-> [i \in 1..num_values |->
                       FromMemBytes(SubSeq(d.data, d.start + sz * (i - 1) + 1,
                                           d.start + sz * i))]]

\* get of the default impl (INT32, INT64, FLOAT, DOUBLE) and of Int96Type
PlainDecoder_get_fixed(d, buffer_len, sz) ==
  LET num_values      == Min(buffer_len, d.num_values)
      bytes_left      == Len(d.data) - d.start
      bytes_to_decode == sz * num_values
  IN  IF ~d.has_data THEN [st |-> "panic", d |-> d, ret |-> 0, out |-> <<>>]
      ELSE IF bytes_left < bytes_to_decode
      THEN [st |-> "err", d |-> d, ret |-> 0, out |-> <<>>]
      ELSE [st  |-> "ok",
            d   |-> [d EXCEPT !.start = @ + bytes_to_decode, !.num_values = @ - num_values],
            ret |-> num_values,
            out |-> [i \in 1..num_values |->
                       FromMemBytes(SubSeq(d.data, d.start + sz * (i - 1) + 1,
                                           d.start + sz * i))]]

\* get of impl Decoder<BoolType>
PlainDecoder_get_bool(d, buffer_len) ==
  LET num_values == Min(buffer_len, d.num_values)
      room       == 8 * Len(d.bit_reader.data) - d.bit_reader.pos
      m          == Min(num_values, room)
      IN Bind([i \in 1..m |-> ByteBit(d.bit_reader.data, d.bit_reader.pos + i - 1)], LAMBDA out :
      IF ~d.has_bit_reader THEN [st |-> "panic", d |-> d, ret |-> 0, out |-> <<>>]
      ELSE IF m < num_values
      THEN [st |-> "err", d |-> [d EXCEPT !.bit_reader.pos = @ + m], ret |-> 0, out |-> out]
      ELSE [st  |-> "ok",
            d   |-> [d EXCEPT !.bit_reader.pos = @ + m, !.num_values = @ - num_values],
            ret |-> num_values, out |-> out])

RECURSIVE PlainDecoder_get_byte_array_loop(_, _, _, _)
\* the loop `for i in 0..num_values` of impl Decoder<ByteArrayType>
PlainDecoder_get_byte_array_loop(d, i, num_values, out) ==
  IF i >= num_values
  THEN [st |-> "ok", d |-> [d EXCEPT !.num_values = @ - num_values],
        ret |-> num_values, out |-> out]
  ELSE IF Len(d.data) - d.start < 4
  THEN [st |-> "panic", d |-> d, ret |-> 0, out |-> out]
  ELSE
    Bind(U32FromBytes(SubSeq(d.data, d.start + 1, d.start + 4)), LAMBDA len :
        LET d1  == [d EXCEPT !.start = @ + 4]
    IN  IF Len(d.data) < d1.start + len
        THEN [st |-> "err", d |-> d1, ret |-> 0, out |-> out]
        ELSE PlainDecoder_get_byte_array_loop(
               [d1 EXCEPT !.start = @ + len], i + 1, num_values,
               Append(out, SubSeq(d.data, d1.start + 1, d1.start + len))))

RECURSIVE PlainDecoder_get_flba_loop(_, _, _, _)
\* the loop `for i in 0..num_values` of impl Decoder<FixedLenByteArrayType>
PlainDecoder_get_flba_loop(d, i, num_values, out) ==
  IF i >= num_values
  THEN [st |-> "ok", d |-> [d EXCEPT !.num_values = @ - num_values],
        ret |-> num_values, out |-> out]
  ELSE IF Len(d.data) < d.start + d.type_length
  THEN [st |-> "err", d |-> d, ret |-> 0, out |-> out]
  ELSE PlainDecoder_get_flba_loop(
         [d EXCEPT !.start = @ + d.type_length], i + 1, num_values,
         Append(out, SubSeq(d.data, d.start + 1, d.start + d.type_length)))

\* impl Decoder for PlainDecoder: get with a buffer of buffer_len slots
PlainDecoder_get(d, buffer_len) ==
  IF d.T = "BOOL" THEN PlainDecoder_get_bool(d, buffer_len)
  ELSE IF d.T = "INT96" THEN PlainDecoder_get_fixed(d, buffer_len, 12)
  ELSE IF d.T = "BYTE_ARRAY"
  THEN IF ~d.has_data THEN [st |-> "panic", d |-> d, ret |-> 0, out |-> <<>>]
       ELSE PlainDecoder_get_byte_array_loop(d, 0, Min(buffer_len, d.num_values), <<>>)
  ELSE IF d.T = "FIXED_LEN_BYTE_ARRAY"
  THEN IF ~d.has_data \/ d.type_length <= 0
       THEN [st |-> "panic", d |-> d, ret |-> 0, out |-> <<>>]
       ELSE PlainDecoder_get_flba_loop(d, 0, Min(buffer_len, d.num_values), <<>>)
  ELSE PlainDecoder_get_fixed(d, buffer_len, size_of(d.T))

----------------------------------------------------------------------------
(* DELTA_LENGTH_BYTE_ARRAY and DELTA_BYTE_ARRAY decoders (decoding.rs)      *)

\* an i32 held in two limbs, as an integer
I32ToInt(w) == IF w[2] >= HalfLimb THEN w[1] + Limb * (w[2] - Limb) ELSE w[1] + Limb * w[2]

\* an integer in the i32 range, as two limbs
IntToI32(n) == IF n >= 0 THEN <<n % Limb, n \div Limb>>
               ELSE <<n % Limb, Limb + ((n - (n % Limb)) \div Limb)>>

DeltaLengthByteArrayDecoder_new ==
  [lengths |-> <<>>, current_idx |-> 0, data |-> <<>>, has_data |-> FALSE,
   offset |-> 0, num_values |-> 0]

\* impl Decoder<ByteArrayType> for DeltaLengthByteArrayDecoder: set_data
DeltaLengthByteArrayDecoder_set_data(d, buf, num_values) ==
  Bind(DeltaBitPackDecoder_set_data(DeltaBitPackDecoder_new("INT32"), buf), LAMBDA s :
      IF s.st # "ok" THEN [st |-> s.st, d |-> d]
      ELSE
        LET num_lengths == s.d.num_values
            IN Bind(DeltaBitPackDecoder_get(s.d, num_lengths), LAMBDA g :
            IF g.st # "ok"
            THEN [st |-> g.st, d |-> [d EXCEPT !.lengths = g.out]]
            ELSE [st |-> "ok",
                  d  |-> [d EXCEPT
                            !.lengths = g.out,
                            !.data = SubSeq(buf, DeltaBitPackDecoder_get_offset(g.d) + 1,
                                            Len(buf)),
                            !.has_data = TRUE,
                            !.offset = 0,
                            !.current_idx = 0,
                            !.num_values = num_lengths]]))

\* one turn of the loop `for i in 0..num_values` of get; s.out is
\* buffer[0..s.i]; data.range(offset, len) aborts when the range leaves the
\* buffer.  done once the loop is left.
DeltaLengthByteArrayDecoder_get_step(s, num_values) ==
  IF s.done THEN s
  ELSE IF s.i >= num_values THEN [s EXCEPT !.done = TRUE]
  ELSE
    Bind(I32ToInt(s.d.lengths[s.d.current_idx + 1]), LAMBDA len :
        IF len < 0 \/ s.d.offset + len > Len(s.d.data)
        THEN [s EXCEPT !.st = "panic", !.done = TRUE]
        ELSE [s EXCEPT !.d = [@ EXCEPT !.offset = @ + len, !.current_idx = @ + 1],
                       !.i = @ + 1,
                       !.out = Append(@, SubSeq(s.d.data, s.d.offset + 1,
                                                s.d.offset + len))])

RECURSIVE DeltaLengthByteArrayDecoder_get_loop(_, _, _)
\* at most `turns` turns of get's loop, by halves
DeltaLengthByteArrayDecoder_get_loop(s, num_values, turns) ==
  IF s.done THEN s
  ELSE IF turns <= 1 THEN DeltaLengthByteArrayDecoder_get_step(s, num_values)
  ELSE DeltaLengthByteArrayDecoder_get_loop(DeltaLengthByteArrayDecoder_get_loop(s, num_values, turns \div 2),
                                           num_values, turns - (turns \div 2))

\* impl Decoder<ByteArrayType> for DeltaLengthByteArrayDecoder: get
DeltaLengthByteArrayDecoder_get(d, buffer_len) ==
  IF ~d.has_data THEN [st |-> "panic", d |-> d, ret |-> 0, out |-> <<>>]
  ELSE
    Bind(Min(buffer_len, d.num_values), LAMBDA num_values :
        Bind(DeltaLengthByteArrayDecoder_get_loop(
               [st |-> "ok", d |-> d, i |-> 0, out |-> <<>>, done |-> FALSE],
               num_values, num_values + 1), LAMBDA s :
            IF s.st = "ok"
            THEN [st |-> "ok", d |-> [s.d EXCEPT !.num_values = @ - num_values],
                  ret |-> num_values, out |-> s.out]
            ELSE [st |-> s.st, d |-> s.d, ret |-> 0, out |-> s.out]))

DeltaByteArrayDecoder_new ==
  [prefix_lengths |-> <<>>, current_idx |-> 0,
   suffix_decoder |-> DeltaLengthByteArrayDecoder_new, has_suffix_decoder |-> FALSE,
   previous_value |-> <<>>, has_previous_value |-> FALSE, num_values |-> 0]

\* impl Decoder<ByteArrayType> for DeltaByteArrayDecoder: set_data
DeltaByteArrayDecoder_set_data(d, buf, num_values) ==
  Bind(DeltaBitPackDecoder_set_data(DeltaBitPackDecoder_new("INT32"), buf), LAMBDA s :
      IF s.st # "ok" THEN [st |-> s.st, d |-> d]
      ELSE
        LET num_prefixes == s.d.num_values
            IN Bind(DeltaBitPackDecoder_get(s.d, num_prefixes), LAMBDA g :
            IF g.st # "ok"
            THEN [st |-> g.st, d |-> [d EXCEPT !.prefix_lengths = g.out]]
            ELSE
              LET rest == SubSeq(buf, DeltaBitPackDecoder_get_offset(g.d) + 1, Len(buf))
                  IN Bind(DeltaLengthByteArrayDecoder_set_data(
                            DeltaLengthByteArrayDecoder_new, rest, num_values), LAMBDA sd :
                  IF sd.st # "ok"
                  THEN [st |-> sd.st, d |-> [d EXCEPT !.prefix_lengths = g.out]]
                  ELSE [st |-> "ok",
                        d  |-> [d EXCEPT !.prefix_lengths = g.out,
                                         !.suffix_decoder = sd.d,
                                         !.has_suffix_decoder = TRUE,
                                         !.num_values = num_prefixes]])))

\* one turn of the loop `for i in 0..num_values` of get; s.out is
\* buffer[0..s.i].  done once the loop is left.
DeltaByteArrayDecoder_get_step(s, num_values) ==
  IF s.done THEN s
  ELSE IF s.i >= num_values THEN [s EXCEPT !.done = TRUE]
  ELSE
    Bind(I32ToInt(s.d.prefix_lengths[s.d.current_idx + 1]), LAMBDA prefix_len :
        Bind(DeltaLengthByteArrayDecoder_get(s.d.suffix_decoder, 1), LAMBDA sg :
        IF prefix_len # 0 /\ ~s.d.has_previous_value
        THEN [s EXCEPT !.st = "panic", !.done = TRUE]
        ELSE IF sg.st # "ok" \/ sg.ret = 0
        THEN [s EXCEPT !.st = IF sg.st = "err" THEN "err" ELSE "panic",
                       !.d = [@ EXCEPT !.suffix_decoder = sg.d],
                       !.done = TRUE]
        ELSE
          Bind((IF prefix_len # 0 THEN s.d.previous_value ELSE <<>>) \o sg.out[1],
               LAMBDA value :
              [s EXCEPT !.d = [@ EXCEPT !.suffix_decoder = sg.d,
                                        !.previous_value = value,
                                        !.has_previous_value = TRUE],
                        !.i = @ + 1,
                        !.out = Append(@, value)])))

RECURSIVE DeltaByteArrayDecoder_get_loop(_, _, _)
\* at most `turns` turns of get's loop, by halves
DeltaByteArrayDecoder_get_loop(s, num_values, turns) ==
  IF s.done THEN s
  ELSE IF turns <= 1 THEN DeltaByteArrayDecoder_get_step(s, num_values)
  ELSE DeltaByteArrayDecoder_get_loop(DeltaByteArrayDecoder_get_loop(s, num_values, turns \div 2),
                                     num_values, turns - (turns \div 2))

\* impl Decoder<ByteArrayType> for DeltaByteArrayDecoder: get
DeltaByteArrayDecoder_get(d, buffer_len) ==
  IF ~d.has_suffix_decoder THEN [st |-> "panic", d |-> d, ret |-> 0, out |-> <<>>]
  ELSE
    Bind(Min(buffer_len, d.num_values), LAMBDA num_values :
        Bind(DeltaByteArrayDecoder_get_loop(
               [st |-> "ok", d |-> d, i |-> 0, out |-> <<>>, done |-> FALSE],
               num_values, num_values + 1), LAMBDA s :
            IF s.st = "ok"
            THEN [st |-> "ok", d |-> [s.d EXCEPT !.num_values = @ - num_values],
                  ret |-> num_values, out |-> s.out]
            ELSE [st |-> s.st, d |-> s.d, ret |-> 0, out |-> s.out]))

----------------------------------------------------------------------------
(* RLE / bit-packed hybrid codec (encodings::rle_encoding).  Values are     *)
(* naturals below 2^bit_width.  A run header whose lowest bit is 1 starts a *)
(* bit-packed run of (header >> 1) groups of 8 values; a header whose       *)
(* lowest bit is 0 starts a repeated run of (header >> 1) values, as in the *)
(* byte vectors of levels.rs (test_rle_decoder_set_data_range).             *)

MAX_GROUPS_PER_BIT_PACKED_RUN == 2 ^ 6
MAX_VALUES_PER_BIT_PACKED_RUN == MAX_GROUPS_PER_BIT_PACKED_RUN * 8

\* bit i of a natural
NatBit(v, i) == (v \div (2 ^ i)) % 2

\* the low n bytes of a natural, little-endian
NatBytes(v, n) == [i \in 1..n |-> (v \div (2 ^ (8 * (i - 1)))) % 256]

\* the natural whose little-endian bytes are bs (at most three bytes)
NatFromBytes(bs) ==
  (IF Len(bs) >= 1 THEN bs[1] ELSE 0)
  + ((IF Len(bs) >= 2 THEN 256 * bs[2] ELSE 0) + (IF Len(bs) >= 3 THEN 65536 * bs[3] ELSE 0))

\* RleEncoder::min_buffer_size(bit_width)
RleEncoder_min_buffer_size(bit_width) ==
  Max(1 + ceil(MAX_VALUES_PER_BIT_PACKED_RUN * bit_width, 8),
      MAX_VLQ_BYTE_LEN + ceil(bit_width, 8))

\* RleEncoder::max_buffer_size(bit_width, num_values)
RleEncoder_max_buffer_size(bit_width, num_values) ==
  Bind(ceil(num_values, 8), LAMBDA num_runs :
      Max(num_runs + num_runs * bit_width, num_runs * (1 + ceil(bit_width, 8))))

\* RleEncoder::new_from_buf(bit_width, buffer, start)
RleEncoder_new_from_buf(bit_width, buffer, start) ==
  [bit_width          |-> bit_width,
   bit_writer         |-> BitWriter_new_from_buf(buffer, start),
   start              |-> start,
   buffered_values    |-> <<>>,
   current_value      |-> 0,
   repeat_count       |-> 0,
   bit_packed_count   |-> 0,
   indicator_byte_pos |-> -1]

\* RleEncoder::flush_rle_run
RleEncoder_flush_rle_run(e) ==
  Bind(BitWriter_put_vlq_int(e.bit_writer, NatToW64(2 * e.repeat_count)), LAMBDA w1 :
      Bind(BitWriter_put_aligned(w1, NatBytes(e.current_value, ceil(e.bit_width, 8))), LAMBDA a :
      LET ok == Len(w1.bytes) = Len(BitWriter_flush(e.bit_writer).bytes)
                              + Len(VlqBytes(NatToW64(2 * e.repeat_count)))
            /\ a.ok
  IN  IF ~ok THEN [st |-> "err", e |-> [e EXCEPT !.bit_writer = a.w]]
      ELSE [st |-> "ok",
            e  |-> [e EXCEPT !.bit_writer = a.w, !.buffered_values = <<>>,
                             !.repeat_count = 0]]))

\* RleEncoder::flush_bit_packed_run(update_indicator_byte)
RleEncoder_flush_bit_packed_run(e, update_indicator_byte) ==
  Bind(IF e.indicator_byte_pos < 0
             THEN BitWriter_get_next_byte_ptr(e.bit_writer, 1)
             ELSE [w |-> e.bit_writer, ok |-> TRUE, ptr |-> e.indicator_byte_pos], LAMBDA p :
      Bind(BitWriter_put_values(p.w, e.buffered_values, e.bit_width, NatBit).w, LAMBDA w1 :
      LET num_groups == e.bit_packed_count \div 8
      w2  == [w1 EXCEPT !.bytes[p.ptr] = (2 * num_groups + 1) % 256]
  IN  IF ~p.ok THEN [st |-> "err", e |-> [e EXCEPT !.bit_writer = p.w]]
      ELSE IF update_indicator_byte
      THEN [st |-> "ok",
            e  |-> [e EXCEPT !.bit_writer = w2, !.buffered_values = <<>>,
                             !.indicator_byte_pos = -1, !.bit_packed_count = 0]]
      ELSE [st |-> "ok",
            e  |-> [e EXCEPT !.bit_writer = w1, !.buffered_values = <<>>,
                             !.indicator_byte_pos = p.ptr]]))

\* RleEncoder::flush_buffered_values
RleEncoder_flush_buffered_values(e) ==
  IF e.repeat_count >= 8
  THEN LET e1 == [e EXCEPT !.buffered_values = <<>>]
       IN  IF e.bit_packed_count > 0
           THEN RleEncoder_flush_bit_packed_run(e1, TRUE)
           ELSE [st |-> "ok", e |-> e1]
  ELSE
    LET e1 == [e EXCEPT !.bit_packed_count = @ + Len(e.buffered_values)]
        IN Bind(RleEncoder_flush_bit_packed_run(
                e1, (e1.bit_packed_count \div 8) + 1 >= MAX_GROUPS_PER_BIT_PACKED_RUN), LAMBDA r :
        IF r.st # "ok" THEN r
        ELSE [st |-> "ok", e |-> [r.e EXCEPT !.repeat_count = 0]])

\* RleEncoder::put(value)
RleEncoder_put(e, value) ==
  LET same == e.current_value = value
      IN Bind(IF ~same /\ e.repeat_count >= 8
              THEN RleEncoder_flush_rle_run(e)
              ELSE [st |-> "ok", e |-> e], LAMBDA f :
      LET e1   == IF same THEN [e EXCEPT !.repeat_count = @ + 1]
              ELSE [f.e EXCEPT !.repeat_count = 1, !.current_value = value]
      e2   == [e1 EXCEPT !.buffered_values = Append(@, value)]
  IN  IF same /\ e1.repeat_count > 8 THEN [st |-> "ok", e |-> e1]
      ELSE IF f.st # "ok" THEN f
      ELSE IF Len(e2.buffered_values) = 8 THEN RleEncoder_flush_buffered_values(e2)
      ELSE [st |-> "ok", e |-> e2])

RECURSIVE RleEncoder_put_range(_, _, _, _)
\* put(values[i]) for i in lo..hi in turn, until one fails; r carries the
\* outcome so far and the number n of values accepted
RleEncoder_put_range(r, values, lo, hi) ==
  IF r.st # "ok" THEN r
  ELSE IF lo >= hi
  THEN Bind(RleEncoder_put(r.e, values[lo]), LAMBDA p :
           [st |-> p.st, e |-> p.e, n |-> IF p.st = "ok" THEN r.n + 1 ELSE r.n])
  ELSE RleEncoder_put_range(RleEncoder_put_range(r, values, lo, (lo + hi) \div 2),
                            values, ((lo + hi) \div 2) + 1, hi)

\* put(v) for each v of values in turn, until one fails
RleEncoder_put_each(e, values) ==
  IF values = <<>> THEN [st |-> "ok", e |-> e, n |-> 0]
  ELSE RleEncoder_put_range([st |-> "ok", e |-> e, n |-> 0], values, 1, Len(values))

\* RleEncoder::flush
RleEncoder_flush(e) ==
  IF e.bit_packed_count > 0 \/ e.repeat_count > 0 \/ e.buffered_values # <<>>
  THEN
    LET all_repeat == e.bit_packed_count = 0
                      /\ (e.repeat_count = Len(e.buffered_values)
                          \/ e.buffered_values = <<>>)
    IN  IF e.repeat_count > 0 /\ all_repeat THEN RleEncoder_flush_rle_run(e)
        ELSE
          Bind(IF e.buffered_values = <<>> THEN <<>>
                        ELSE e.buffered_values \o Repeat(0, 8 - Len(e.buffered_values)), LAMBDA padded :
              LET e1 == [e EXCEPT !.buffered_values = padded,
                              !.bit_packed_count = @ + Len(padded)]
              IN Bind(RleEncoder_flush_bit_packed_run(e1, TRUE), LAMBDA r :
              IF r.st # "ok" THEN r
              ELSE [st |-> "ok", e |-> [r.e EXCEPT !.repeat_count = 0]]))
  ELSE [st |-> "ok", e |-> e]

\* RleEncoder::len(): bytes written after `start`
RleEncoder_len(e) == Len(e.bit_writer.bytes) - e.start

\* RleEncoder::consume(): the buffer cut to the bytes written
RleEncoder_consume(e) == BitWriter_written(e.bit_writer)

\* RleDecoder::new(bit_width)
RleDecoder_new(bit_width) ==
  [bit_width |-> bit_width, bit_reader |-> BitReader_new(<<>>), has_bit_reader |-> FALSE,
   rle_left |-> 0, bit_packed_left |-> 0, current_value |-> 0]

\* RleDecoder::reload: reads the next run header; more is FALSE at the end
\* of the input
RleDecoder_reload(d) ==
  Bind(BitReader_get_vlq_int(d.bit_reader), LAMBDA h :
      Bind(W64ToNat(h.v), LAMBDA indicator_value :
      IF ~h.ok THEN [st |-> "ok", more |-> FALSE, d |-> d]
      ELSE IF indicator_value % 2 = 1
      THEN [st |-> "ok", more |-> TRUE,
            d  |-> [d EXCEPT !.bit_reader = h.r,
                             !.bit_packed_left = (indicator_value \div 2) * 8]]
      ELSE
        Bind(ceil(d.bit_width, 8), LAMBDA value_width :
            Bind(BitReader_get_byte_offset(h.r), LAMBDA at :
            IF at + value_width > Len(h.r.data)
            THEN [st |-> "err", more |-> FALSE, d |-> [d EXCEPT !.bit_reader = h.r]]
            ELSE [st |-> "ok", more |-> TRUE,
                  d  |-> [d EXCEPT
                            !.bit_reader = [h.r EXCEPT !.pos = 8 * (at + value_width)],
                            !.rle_left = indicator_value \div 2,
                            !.current_value =
                              NatFromBytes(SubSeq(h.r.data, at + 1, at + value_width))]]))))

\* RleDecoder::set_data(data)
RleDecoder_set_data(d, buf) ==
  RleDecoder_reload([d EXCEPT !.bit_reader = BitReader_new(buf), !.has_bit_reader = TRUE,
                              !.rle_left = 0, !.bit_packed_left = 0]).d

\* the next num_bits-wide value of a reader, as a natural (num_bits <= 24)
BitReader_peek_nat(r, num_bits, j) ==
  Bind([t \in 1..24 |->
          IF t <= num_bits THEN ByteBit(r.data, r.pos + j * num_bits + t - 1) ELSE 0],
       LAMBDA P : (Pack8(P, 1) + 256 * Pack8(P, 9)) + 65536 * Pack8(P, 17))

\* one turn of the loop `while values_read < max_values` of get_batch: the
\* rest of the current run, or the next run header; done once the loop is left
RleDecoder_get_batch_step(s, max_values) ==
  IF s.done THEN s
  ELSE IF Len(s.out) >= max_values THEN [s EXCEPT !.done = TRUE]
  ELSE IF s.d.rle_left > 0
  THEN LET n == Min(max_values - Len(s.out), s.d.rle_left)
       IN  [s EXCEPT !.d.rle_left = @ - n, !.out = @ \o Repeat(s.d.current_value, n)]
  ELSE IF s.d.bit_packed_left > 0
  THEN LET n    == Min(max_values - Len(s.out), s.d.bit_packed_left)
           room == 8 * Len(s.d.bit_reader.data) - s.d.bit_reader.pos
           m    == IF s.d.bit_width = 0 THEN n ELSE Min(n, room \div s.d.bit_width)
           vs   == [j \in 1..m |-> BitReader_peek_nat(s.d.bit_reader, s.d.bit_width, j - 1)]
       IN  [st   |-> IF m < n THEN "err" ELSE "ok",
            d    |-> [s.d EXCEPT !.bit_reader.pos = @ + m * s.d.bit_width,
                                 !.bit_packed_left = @ - m],
            out  |-> s.out \o vs,
            done |-> m < n]
  ELSE Bind(RleDecoder_reload(s.d), LAMBDA r :
           [st |-> r.st, d |-> r.d, out |-> s.out, done |-> r.st # "ok" \/ ~r.more])

RECURSIVE RleDecoder_get_batch_loop(_, _, _)
\* the loop `while values_read < max_values` of get_batch, at most `turns`
\* turns of it
RleDecoder_get_batch_loop(s, max_values, turns) ==
  IF s.done THEN s
  ELSE IF turns <= 1 THEN RleDecoder_get_batch_step(s, max_values)
  ELSE RleDecoder_get_batch_loop(RleDecoder_get_batch_loop(s, max_values, turns \div 2),
                                max_values, turns - (turns \div 2))

\* RleDecoder::get_batch(buffer): out holds the values read
RleDecoder_get_batch(d, buffer_len) ==
  IF ~d.has_bit_reader THEN [st |-> "panic", d |-> d, out |-> <<>>]
  ELSE \* every turn but the last reads a value or a run header; runs of
       \* eight values or more take fewer turns
       Bind(RleDecoder_get_batch_loop([st |-> "ok", d |-> d, out |-> <<>>, done |-> FALSE],
                                      buffer_len, (buffer_len \div 4) + 5), LAMBDA t :
           Bind(IF t.done THEN t
                ELSE RleDecoder_get_batch_loop(t, buffer_len, 2 * buffer_len + 2), LAMBDA s :
               [st |-> s.st, d |-> s.d, out |-> s.out]))

\* RleDecoder::get_batch_with_dict(dict, buffer, max_values)
RleDecoder_get_batch_with_dict(d, dict, max_values) ==
  Bind(RleDecoder_get_batch(d, max_values), LAMBDA g :
      IF g.st = "ok" /\ \E i \in 1..Len(g.out) : g.out[i] >= Len(dict)
      THEN [st |-> "panic", d |-> g.d, out |-> <<>>]
      ELSE [st |-> g.st, d |-> g.d,
            out |-> [i \in 1..Len(g.out) |->
                       IF g.out[i] < Len(dict) THEN dict[g.out[i] + 1] ELSE <<>>]])

----------------------------------------------------------------------------
(* Dictionary encoder (encoding.rs)                                         *)

INITIAL_HASH_TABLE_SIZE == 1024
HASH_SLOT_EMPTY == -1

\* (hash_table_size as f32 * MAX_HASH_LOAD) as usize, MAX_HASH_LOAD = 0.7
MaxHashLoad(hash_table_size) == (hash_table_size * 7) \div 10

\* util::hash_util::hash(value, 0): some function of the bytes of the value
hash(value) == 1022 + 3 * (SumTo(value, 1, Len(value)) \div 2)

\* DictEncoder::new
DictEncoder_new(T) ==
  [T                |-> T,
   hash_table_size  |-> INITIAL_HASH_TABLE_SIZE,
   mod_bitmask      |-> INITIAL_HASH_TABLE_SIZE - 1,
   hash_slots       |-> [j \in 0..(INITIAL_HASH_TABLE_SIZE - 1) |-> HASH_SLOT_EMPTY],
   buffered_indices |-> <<>>,
   uniques          |-> <<>>]

\* DictEncoder::num_entries
DictEncoder_num_entries(e) == Len(e.uniques)

\* f32 / f64 NaN: the exponent bits all set and a fraction that is not zero
IsNaN(T, v) ==
  IF T = "FLOAT"
  THEN (v[2] % 32768) \div 128 = 255 /\ (v[2] % 128 # 0 \/ v[1] # 0)
  ELSE (v[4] % 32768) \div 16 = 2047
       /\ (v[4] % 16 # 0 \/ v[3] # 0 \/ v[2] # 0 \/ v[1] # 0)

\* f32 / f64 zero of either sign
IsFloatZero(v) == \A i \in 1..Len(v) : v[i] = (IF i = Len(v) THEN v[i] - (v[i] % 32768) ELSE 0)

\* `a != b` of T::T: PartialEq of f32 and f64 for FLOAT and DOUBLE, where a
\* NaN differs from every value and the zeros are equal
value_ne(T, a, b) ==
  IF T \in {"FLOAT", "DOUBLE"}
  THEN IsNaN(T, a) \/ IsNaN(T, b) \/ (a # b /\ ~(IsFloatZero(a) /\ IsFloatZero(b)))
  ELSE a # b

\* the slot the hash gives, whatever value it holds
probe_without_comparing(T, slots, size, uniques, value, j) == j

\* the test that ends the loop of put_one and of double_table_size at slot j:
\* the slot is empty or holds the index of a value that is not != value
probe_ends(T, slots, uniques, value, j) ==
  slots[j] = HASH_SLOT_EMPTY \/ ~value_ne(T, uniques[slots[j] + 1], value)

RECURSIVE probe_within(_, _, _, _, _, _, _, _)
\* the first slot at which the loop ends among the slots lo..hi steps after
\* slot j, wrapping at size; -1 when it ends at none of them
probe_within(T, slots, size, uniques, value, j, lo, hi) ==
  IF lo = hi
  THEN IF probe_ends(T, slots, uniques, value, (j + lo) % size)
       THEN (j + lo) % size ELSE -1
  ELSE Bind(probe_within(T, slots, size, uniques, value, j, lo, (lo + hi) \div 2),
            LAMBDA found :
              IF found # -1 THEN found
              ELSE probe_within(T, slots, size, uniques, value, j,
                                ((lo + hi) \div 2) + 1, hi))

RECURSIVE probe_after(_, _, _, _, _, _, _, _)
\* the loop from lo steps after slot j on, taken lo + 1 steps at a time
probe_after(T, slots, size, uniques, value, j, lo, hi) ==
  Bind(probe_within(T, slots, size, uniques, value, j, lo, hi), LAMBDA found :
    IF found # -1 THEN found
    ELSE probe_after(T, slots, size, uniques, value, j, hi + 1, 2 * hi + 2))

\* linear probing from slot j: the first slot that is empty or holds the
\* index of `value`
probe(T, slots, size, uniques, value, j) ==
  probe_after(T, slots, size, uniques, value, j, 0, 0)

RECURSIVE rehash_range(_, _, _, _, _)
\* the loop `for i in 0..self.hash_table_size` of double_table_size over the
\* old slots lo..hi; new_hash_slots is threaded through
rehash_range(e, new_size, new_hash_slots, lo, hi) ==
  IF lo > hi THEN new_hash_slots
  ELSE IF lo = hi
  THEN LET index == e.hash_slots[lo]
       IN  IF index = HASH_SLOT_EMPTY THEN new_hash_slots
           ELSE LET value == e.uniques[index + 1]
                    j == probe(e.T, new_hash_slots, new_size, e.uniques, value,
                               hash(value) % new_size)
                IN  [new_hash_slots EXCEPT ![j] = index]
  ELSE Bind(rehash_range(e, new_size, new_hash_slots, lo, (lo + hi) \div 2), LAMBDA slots :
         rehash_range(e, new_size, slots, ((lo + hi) \div 2) + 1, hi))

\* double_table_size with the loop over the old slots ending one slot early
double_table_size_short_of_last_slot(e) ==
  LET new_size == e.hash_table_size * 2
      empty    == [j \in 0..(new_size - 1) |-> HASH_SLOT_EMPTY]
  IN  [e EXCEPT !.hash_slots = rehash_range(e, new_size, empty, 0, e.hash_table_size - 2),
                !.hash_table_size = new_size,
                !.mod_bitmask = new_size - 1]

\* DictEncoder::double_table_size
double_table_size(e) ==
  LET new_size == e.hash_table_size * 2
      empty    == [j \in 0..(new_size - 1) |-> HASH_SLOT_EMPTY]
  IN  [e EXCEPT !.hash_slots = rehash_range(e, new_size, empty, 0, e.hash_table_size - 1),
                !.hash_table_size = new_size,
                !.mod_bitmask = new_size - 1]

\* DictEncoder::put_one (with add_dict_key)
put_one(e, value) ==
  Bind(probe(e.T, e.hash_slots, e.hash_table_size, e.uniques, value,
             hash(value) % (e.mod_bitmask + 1)), LAMBDA j :
    LET index == e.hash_slots[j]
    IN  IF index = HASH_SLOT_EMPTY
        THEN LET new_index == Len(e.uniques)
                 e1 == [e EXCEPT !.hash_slots[j] = new_index,
                                 !.uniques = Append(@, value)]
                 e2 == IF Len(e1.uniques) > MaxHashLoad(e1.hash_table_size)
                       THEN double_table_size(e1) ELSE e1
             IN  [ok |-> TRUE, e |-> [e2 EXCEPT !.buffered_indices = Append(@, new_index)]]
        ELSE [ok |-> TRUE, e |-> [e EXCEPT !.buffered_indices = Append(@, index)]])

RECURSIVE DictEncoder_put_range(_, _, _, _)
\* `self.put_one(&i)?` for values[lo..hi] in turn
DictEncoder_put_range(r, values, lo, hi) ==
  IF ~r.ok THEN r
  ELSE IF lo >= hi THEN put_one(r.e, values[lo])
  ELSE Bind(DictEncoder_put_range(r, values, lo, (lo + hi) \div 2), LAMBDA left :
         DictEncoder_put_range(left, values, ((lo + hi) \div 2) + 1, hi))

\* impl Encoder for DictEncoder: put
DictEncoder_put(e, values) ==
  IF values = <<>> THEN [ok |-> TRUE, e |-> e]
  ELSE DictEncoder_put_range([ok |-> TRUE, e |-> e], values, 1, Len(values))

\* bit_width rounding log2 down
bit_width_rounding_down(e) ==
  LET num_entries == Len(e.uniques)
  IN  IF num_entries = 0 THEN 0 ELSE IF num_entries = 1 THEN 1
      ELSE log2(num_entries + 1) - 1

\* log2 of the number of entries whatever that number is
bit_width_without_special_cases(e) == log2(Len(e.uniques))

\* DictEncoder::bit_width
DictEncoder_bit_width(e) ==
  LET num_entries == Len(e.uniques)
  IN  IF num_entries = 0 THEN 0 ELSE IF num_entries = 1 THEN 1 ELSE log2(num_entries)

\* DictEncoder::write_dict
DictEncoder_write_dict(e) ==
  PlainEncoder_flush_buffer(PlainEncoder_put(PlainEncoder_new(e.T), e.uniques).e)

\* DictEncoder::write_indices
DictEncoder_write_indices(e) ==
  Bind(DictEncoder_bit_width(e), LAMBDA bit_width :
      LET buffer_len == 1 + RleEncoder_min_buffer_size(bit_width)
                      + RleEncoder_max_buffer_size(bit_width, Len(e.buffered_indices))
      IN Bind(<<bit_width>> \o Repeat(0, buffer_len - 1) \o <<bit_width>>, LAMBDA buffer :
      Bind(RleEncoder_put_each(RleEncoder_new_from_buf(bit_width, buffer, 1),
                                        e.buffered_indices), LAMBDA p :
      Bind(RleEncoder_flush(p.e), LAMBDA f :
      IF p.st # "ok" THEN [ok |-> FALSE, buffer |-> <<>>, e |-> e]
      ELSE IF f.st # "ok"
      THEN [ok |-> FALSE, buffer |-> <<>>, e |-> [e EXCEPT !.buffered_indices = <<>>]]
      ELSE [ok |-> TRUE, buffer |-> RleEncoder_consume(f.e),
            e |-> [e EXCEPT !.buffered_indices = <<>>]]))))

\* impl Encoder for DictEncoder: flush_buffer
DictEncoder_flush_buffer(e) == DictEncoder_write_indices(e)

----------------------------------------------------------------------------
(* Dictionary decoder (decoding.rs)                                         *)

DictDecoder_new ==
  [dictionary |-> <<>>, has_dictionary |-> FALSE,
   rle_decoder |-> RleDecoder_new(0), has_rle_decoder |-> FALSE, num_values |-> 0]

\* DictDecoder::set_dict(decoder), decoder a PlainDecoder holding the
\* dictionary page; default_value is T::T::default()
DictDecoder_set_dict(d, decoder, default_value) ==
  LET num_values == decoder.num_values
      IN Bind(PlainDecoder_get(decoder, num_values), LAMBDA g :
      LET filled == [i \in 1..num_values |->
                   IF i <= Len(g.out) THEN g.out[i] ELSE default_value]
  IN  IF g.st # "ok" THEN [st |-> g.st, d |-> [d EXCEPT !.dictionary = filled]]
      ELSE [st |-> "ok", d |-> [d EXCEPT !.dictionary = filled, !.has_dictionary = TRUE]])

\* impl Decoder for DictDecoder: set_data
DictDecoder_set_data(d, buf, num_values) ==
  IF buf = <<>> THEN [st |-> "panic", d |-> d]
  ELSE [st |-> "ok",
        d  |-> [d EXCEPT
                  !.rle_decoder = RleDecoder_set_data(RleDecoder_new(buf[1]), Tail(buf)),
                  !.has_rle_decoder = TRUE,
                  !.num_values = num_values]]

\* impl Decoder for DictDecoder: get with a buffer of buffer_len slots
DictDecoder_get(d, buffer_len) ==
  IF ~d.has_rle_decoder \/ ~d.has_dictionary
  THEN [st |-> "panic", d |-> d, ret |-> 0, out |-> <<>>]
  ELSE LET num_values == Min(buffer_len, d.num_values)
           IN Bind(RleDecoder_get_batch_with_dict(d.rle_decoder, d.dictionary, num_values), LAMBDA g :
           [st |-> g.st, d |-> [d EXCEPT !.rle_decoder = g.d],
            ret |-> IF g.st = "ok" THEN Len(g.out) ELSE 0, out |-> g.out])

----------------------------------------------------------------------------
(* Level encoder and decoder (levels.rs)                                    *)

\* LevelEncoder::new(encoding, max_level, byte_buffer)
LevelEncoder_new(encoding, max_level, byte_buffer) ==
  Bind(log2(max_level + 1), LAMBDA bit_width :
      [encoding  |-> encoding,
       bit_width |-> bit_width,
       encoder   |-> IF encoding = "RLE"
                     THEN RleEncoder_new_from_buf(bit_width, byte_buffer, 4)
                     ELSE BitWriter_new_from_buf(byte_buffer, 0)])

\* LevelEncoder::put(buffer)
LevelEncoder_put(e, buffer) ==
  IF e.encoding = "RLE"
  THEN Bind(RleEncoder_put_each(e.encoder, buffer), LAMBDA p :
           Bind(RleEncoder_flush(p.e), LAMBDA f :
           IF p.st # "ok" THEN [st |-> "err", e |-> [e EXCEPT !.encoder = p.e], ret |-> 0]
           ELSE IF f.st # "ok"
           THEN [st |-> "err", e |-> [e EXCEPT !.encoder = f.e], ret |-> 0]
           ELSE [st |-> "ok", e |-> [e EXCEPT !.encoder = f.e], ret |-> p.n]))
  ELSE Bind(BitWriter_put_values(e.encoder, buffer, e.bit_width, NatBit), LAMBDA p :
           IF p.accepted < Len(buffer)
           THEN [st |-> "err", e |-> [e EXCEPT !.encoder = p.w], ret |-> 0]
           ELSE [st |-> "ok", e |-> [e EXCEPT !.encoder = BitWriter_flush(p.w)],
                 ret |-> Len(buffer)])

\* max_buffer_size that rounds the BIT_PACKED byte count down
max_buffer_size_rounding_down(encoding, max_level, num_buffered_values) ==
  Bind(log2(max_level + 1), LAMBDA bit_width :
      IF encoding = "RLE"
      THEN RleEncoder_max_buffer_size(bit_width, num_buffered_values)
             + RleEncoder_min_buffer_size(bit_width)
      ELSE (num_buffered_values * bit_width) \div 8)

\* LevelEncoder::max_buffer_size(encoding, max_level, num_buffered_values)
LevelEncoder_max_buffer_size(encoding, max_level, num_buffered_values) ==
  Bind(log2(max_level + 1), LAMBDA bit_width :
      IF encoding = "RLE"
      THEN RleEncoder_max_buffer_size(bit_width, num_buffered_values)
             + RleEncoder_min_buffer_size(bit_width)
      ELSE ceil(num_buffered_values * bit_width, 8))

\* LevelEncoder::consume
LevelEncoder_consume(e) ==
  IF e.encoding = "RLE"
  THEN Bind(RleEncoder_flush(e.encoder), LAMBDA f :
           Bind(RleEncoder_consume(f.e), LAMBDA encoded_data :
           IF f.st # "ok" THEN [st |-> "err", buffer |-> <<>>]
           ELSE [st |-> "ok",
                 buffer |-> U32Bytes(RleEncoder_len(f.e))
                              \o SubSeq(encoded_data, 5, Len(encoded_data))]))
  ELSE [st |-> "ok", buffer |-> BitWriter_written(BitWriter_flush(e.encoder))]

\* LevelDecoder::new(encoding, max_level)
LevelDecoder_new(encoding, max_level) ==
  Bind(log2(max_level + 1), LAMBDA bit_width :
      [encoding       |-> encoding,
       bit_width      |-> bit_width,
       num_values     |-> 0,
       has_num_values |-> FALSE,
       decoder        |-> IF encoding = "RLE" THEN RleDecoder_new(bit_width)
                          ELSE BitReader_new(<<>>)])

\* set_data that returns the bytes the levels need, whatever the bytes given
set_data_returning_num_bytes(d, num_buffered_values, buf) ==
  LET d0 == [d EXCEPT !.num_values = num_buffered_values, !.has_num_values = TRUE]
  IN  IF d.encoding = "RLE"
      THEN IF Len(buf) < 4 \/ buf[4] >= 128 THEN [st |-> "panic", d |-> d0, ret |-> 0]
           ELSE Bind(U32FromBytes(buf), LAMBDA data_size :
                    IF 4 + data_size > Len(buf) THEN [st |-> "panic", d |-> d0, ret |-> 0]
                    ELSE [st  |-> "ok",
                          d   |-> [d0 EXCEPT !.decoder =
                                     RleDecoder_set_data(@, SubSeq(buf, 5, 4 + data_size))],
                          ret |-> 4 + data_size])
      ELSE LET num_bytes == ceil(num_buffered_values * d.bit_width, 8)
               IN Bind(Min(num_bytes, Len(buf)), LAMBDA data_size :
               [st  |-> "ok",
                d   |-> [d0 EXCEPT !.decoder = BitReader_new(SubSeq(buf, 1, data_size))],
                ret |-> num_bytes])

\* LevelDecoder::set_data(num_buffered_values, data); ret is the number of
\* bytes set
LevelDecoder_set_data(d, num_buffered_values, buf) ==
  LET d0 == [d EXCEPT !.num_values = num_buffered_values, !.has_num_values = TRUE]
  IN  IF d.encoding = "RLE"
      THEN IF Len(buf) < 4 \/ buf[4] >= 128 THEN [st |-> "panic", d |-> d0, ret |-> 0]
           ELSE Bind(U32FromBytes(buf), LAMBDA data_size :
                    IF 4 + data_size > Len(buf) THEN [st |-> "panic", d |-> d0, ret |-> 0]
                    ELSE [st  |-> "ok",
                          d   |-> [d0 EXCEPT !.decoder =
                                     RleDecoder_set_data(@, SubSeq(buf, 5, 4 + data_size))],
                          ret |-> 4 + data_size])
      ELSE LET num_bytes == ceil(num_buffered_values * d.bit_width, 8)
               IN Bind(Min(num_bytes, Len(buf)), LAMBDA data_size :
               [st  |-> "ok",
                d   |-> [d0 EXCEPT !.decoder = BitReader_new(SubSeq(buf, 1, data_size))],
                ret |-> data_size])

\* LevelDecoder::set_data_range(num_buffered_values, data, start, len)
LevelDecoder_set_data_range(d, num_buffered_values, buf, start, len) ==
  IF d.encoding # "RLE" \/ start + len > Len(buf) THEN [st |-> "panic", d |-> d, ret |-> 0]
  ELSE [st  |-> "ok",
        d   |-> [d EXCEPT !.decoder =
                            RleDecoder_set_data(@, SubSeq(buf, start + 1, start + len)),
                          !.num_values = num_buffered_values, !.has_num_values = TRUE],
        ret |-> len]

\* get that fills the buffer whatever the count of levels left
get_ignoring_num_values(d, buffer_len) ==
  IF ~d.has_num_values THEN [st |-> "panic", d |-> d, ret |-> 0, out |-> <<>>]
  ELSE
    LET len == buffer_len
    IN  IF d.encoding = "RLE"
        THEN Bind(RleDecoder_get_batch(d.decoder, len), LAMBDA g :
                 IF g.st # "ok"
                 THEN [st |-> g.st, d |-> [d EXCEPT !.decoder = g.d],
                       ret |-> 0, out |-> g.out]
                 ELSE [st  |-> "ok",
                       d   |-> [d EXCEPT !.decoder = g.d, !.num_values = @ - Len(g.out)],
                       ret |-> Len(g.out), out |-> g.out])
        ELSE LET room == 8 * Len(d.decoder.data) - d.decoder.pos
                 m    == IF d.bit_width = 0 THEN len ELSE Min(len, room \div d.bit_width)
                 IN Bind([j \in 1..m |-> BitReader_peek_nat(d.decoder, d.bit_width, j - 1)], LAMBDA out :
                 [st  |-> "ok",
                  d   |-> [d EXCEPT !.decoder.pos = @ + m * d.bit_width,
                                    !.num_values = @ - m],
                  ret |-> m, out |-> out])

\* LevelDecoder::get with a buffer of buffer_len slots
LevelDecoder_get(d, buffer_len) ==
  IF ~d.has_num_values THEN [st |-> "panic", d |-> d, ret |-> 0, out |-> <<>>]
  ELSE
    LET len == Min(d.num_values, buffer_len)
    IN  IF d.encoding = "RLE"
        THEN Bind(RleDecoder_get_batch(d.decoder, len), LAMBDA g :
                 IF g.st # "ok"
                 THEN [st |-> g.st, d |-> [d EXCEPT !.decoder = g.d],
                       ret |-> 0, out |-> g.out]
                 ELSE [st  |-> "ok",
                       d   |-> [d EXCEPT !.decoder = g.d, !.num_values = @ - Len(g.out)],
                       ret |-> Len(g.out), out |-> g.out])
        ELSE LET room == 8 * Len(d.decoder.data) - d.decoder.pos
                 m    == IF d.bit_width = 0 THEN len ELSE Min(len, room \div d.bit_width)
                 IN Bind([j \in 1..m |-> BitReader_peek_nat(d.decoder, d.bit_width, j - 1)], LAMBDA out :
                 [st  |-> "ok",
                  d   |-> [d EXCEPT !.decoder.pos = @ + m * d.bit_width,
                                    !.num_values = @ - m],
                  ret |-> m, out |-> out])

----------------------------------------------------------------------------
(* Writers of the DELTA_LENGTH_BYTE_ARRAY and DELTA_BYTE_ARRAY payloads:    *)
(* the lengths are written by DeltaBitPackEncoder<Int32Type> (put, then     *)
(* flush_buffer) and the bytes follow.                                      *)

\* DELTA_BINARY_PACKED(INT32) of a sequence of naturals
DeltaBinaryPackedInt32(ns) ==
  DeltaBitPackEncoder_flush_buffer(
    DeltaBitPackEncoder_put(DeltaBitPackEncoder_new("INT32"),
                            [i \in 1..Len(ns) |-> IntToI32(ns[i])]).e).buffer

\* DELTA_BINARY_PACKED(INT32) lengths ++ concatenated bytes
DeltaLengthByteArray_payload(values) ==
  DeltaBinaryPackedInt32([i \in 1..Len(values) |-> Len(values[i])]) \o Flatten(values)

\* length of the longest common prefix of two byte sequences
CommonPrefixLen(a, b) ==
  LET same == {k \in 0..Min(Len(a), Len(b)) : SubSeq(a, 1, k) = SubSeq(b, 1, k)}
  IN  CHOOSE k \in same : \A m \in same : m <= k

\* the prefix length written for value i: shared with the value before it
PrefixLengths(values) ==
  [i \in 1..Len(values) |->
     IF i = 1 THEN 0 ELSE CommonPrefixLen(values[i - 1], values[i])]

\* DELTA_BINARY_PACKED(INT32) prefix_lengths ++ DELTA_LENGTH_BYTE_ARRAY suffixes
DeltaByteArray_payload(values) ==
  Bind(PrefixLengths(values), LAMBDA pl :
      DeltaBinaryPackedInt32(pl)
        \o DeltaLengthByteArray_payload(
             [i \in 1..Len(values) |-> SubSeq(values[i], pl[i] + 1, Len(values[i]))]))

----------------------------------------------------------------------------
(* The caller of the value codecs: put calls, flush_buffer, set_data, get.  *)

MaxPuts == 2      \* put calls per cycle
MaxCycles == 2    \* put / flush_buffer cycles on one encoder
MaxGets == 3      \* get calls after one set_data
TypeLength == 2   \* type_length of the FIXED_LEN_BYTE_ARRAY column

FixedTypes == {"INT32", "INT64", "INT96", "FLOAT", "DOUBLE"}
PhysicalTypes == {"BOOL", "BYTE_ARRAY", "FIXED_LEN_BYTE_ARRAY"} \cup FixedTypes

\* the (encoding, type) pairs exercised
Supported(encoding, T) ==
  \/ encoding = "PLAIN"
  \/ encoding = "PLAIN_DICTIONARY" /\ T \in {"INT32", "BYTE_ARRAY"}
  \/ encoding = "DELTA_BINARY_PACKED" /\ T \in {"INT32", "INT64"}
  \/ encoding \in {"DELTA_LENGTH_BYTE_ARRAY", "DELTA_BYTE_ARRAY"} /\ T = "BYTE_ARRAY"

Encodings == {"PLAIN", "PLAIN_DICTIONARY", "DELTA_BINARY_PACKED",
              "DELTA_LENGTH_BYTE_ARRAY", "DELTA_BYTE_ARRAY"}

\* value patterns: 1 cycles through the alphabet, 2 repeats one value,
\* 3 repeats each value nine times, 4 alternates the least and the greatest
\* value of the type
Pats(encoding, T) ==
  IF encoding = "PLAIN_DICTIONARY" THEN {1, 2, 3}
  ELSE IF encoding = "DELTA_BINARY_PACKED" /\ T = "INT32" THEN {1, 2, 4}
  ELSE IF encoding = "DELTA_BINARY_PACKED" /\ T = "INT64" THEN {1, 4}
  ELSE {1}

Kinds ==
  {k \in [encoding : Encodings, T : PhysicalTypes, pat : {1, 2, 3, 4}] :
     Supported(k.encoding, k.T) /\ k.pat \in Pats(k.encoding, k.T)}

\* the values a column of type T draws from
Alphabet(T) ==
  IF T = "BOOL" THEN <<1, 0, 0, 1, 1, 1, 0>>
  ELSE IF T = "INT32"
    THEN <<(<<0, 0>>), <<1, 0>>, <<65535, 65535>>, <<5, 0>>, <<65535, 32767>>,
           <<3, 0>>, <<0, 32768>>>>
  ELSE IF T = "FLOAT"
    THEN <<(<<0, 0>>), <<0, 16256>>, <<0, 32704>>, <<0, 49184>>, <<1, 0>>>>
  ELSE IF T = "INT64"
    THEN <<W64Zero, <<1, 0, 0, 0>>, <<65535, 65535, 65535, 65535>>, <<5, 0, 0, 0>>,
           W64Max, <<0, 0, 1, 0>>, W64Min>>
  ELSE IF T = "DOUBLE"
    THEN <<W64Zero, <<0, 0, 0, 16368>>, <<0, 0, 0, 32760>>, <<0, 0, 0, 49156>>,
           <<1, 0, 0, 0>>>>
  ELSE IF T = "INT96"
    THEN <<(<<0, 0, 0, 0, 0, 0>>), <<1, 0, 2, 0, 3, 0>>,
           <<65535, 65535, 0, 32768, 255, 256>>>>
  ELSE IF T = "BYTE_ARRAY"
    THEN <<(<<97, 98>>), <<97, 98, 99>>, <<97, 98, 100>>, <<>>, <<98>>, <<98, 0, 255>>>>
  ELSE <<[i \in 1..TypeLength |-> i], [i \in 1..TypeLength |-> 0],
         [i \in 1..TypeLength |-> 256 - i]>>

\* i32::min_value() / i64::min_value() and i32::max_value() / i64::max_value()
MinValue(T) == IF T = "INT32" THEN <<0, HalfLimb>> ELSE W64Min
MaxValue(T) == IF T = "INT32" THEN <<65535, 32767>> ELSE W64Max

\* the i-th value (1-based) put in a cycle
Value(k, c, i) ==
  Bind(Alphabet(k.T), LAMBDA A :
      IF k.pat = 1 THEN A[((i + 2 * c) % Len(A)) + 1]
      ELSE IF k.pat = 2 THEN A[(c % Len(A)) + 1]
      ELSE IF k.pat = 3 THEN A[(((i \div 9) + c) % Len(A)) + 1]
      ELSE IF (i + c) % 2 = 0 THEN MinValue(k.T) ELSE MaxValue(k.T))

IsByteArrayPage(k) == k.encoding \in {"DELTA_LENGTH_BYTE_ARRAY", "DELTA_BYTE_ARRAY"}

\* lengths of the slices handed to put
PutLens(k) ==
  IF k.encoding = "DELTA_BINARY_PACKED" THEN {0, 1, 128}
  ELSE IF k.encoding = "PLAIN_DICTIONARY" THEN {0, 1, 20}
  ELSE IF k.T = "BOOL" THEN {0, 9, 2048}
  ELSE IF IsByteArrayPage(k) THEN {0, 1, 3, 32}
  ELSE {0, 1, 3}

\* lengths of the buffers handed to get
GetLens(k) ==
  IF k.encoding = "DELTA_BINARY_PACKED" THEN {1, 127, 300}
  ELSE IF k.encoding = "PLAIN_DICTIONARY" THEN {1, 19, 100}
  ELSE IF k.T = "BOOL" THEN {1, 8, 2048}
  ELSE IF IsByteArrayPage(k) THEN {1, 32, 100}
  ELSE {1, 2, 100}

\* T::T::default()
DefaultValue(T) ==
  IF T = "BOOL" THEN 0
  ELSE IF T \in {"INT32", "FLOAT"} THEN <<0, 0>>
  ELSE IF T \in {"INT64", "DOUBLE"} THEN W64Zero
  ELSE IF T = "INT96" THEN <<0, 0, 0, 0, 0, 0>>
  ELSE <<>>

\* the encoder the caller builds for a kind; the byte-array page writers
\* keep the values they were given
Encoder_new(k) ==
  IF k.encoding = "PLAIN" THEN PlainEncoder_new(k.T)
  ELSE IF k.encoding = "PLAIN_DICTIONARY" THEN DictEncoder_new(k.T)
  ELSE IF k.encoding = "DELTA_BINARY_PACKED" THEN DeltaBitPackEncoder_new(k.T)
  ELSE [values |-> <<>>]

\* Encoder::put
Encoder_put(k, e, values) ==
  IF k.encoding = "PLAIN" THEN PlainEncoder_put(e, values)
  ELSE IF k.encoding = "PLAIN_DICTIONARY" THEN DictEncoder_put(e, values)
  ELSE IF k.encoding = "DELTA_BINARY_PACKED" THEN DeltaBitPackEncoder_put(e, values)
  ELSE [ok |-> TRUE, e |-> [values |-> e.values \o values]]

\* Encoder::flush_buffer
Encoder_flush_buffer(k, e) ==
  IF k.encoding = "PLAIN" THEN PlainEncoder_flush_buffer(e)
  ELSE IF k.encoding = "PLAIN_DICTIONARY" THEN DictEncoder_flush_buffer(e)
  ELSE IF k.encoding = "DELTA_BINARY_PACKED" THEN DeltaBitPackEncoder_flush_buffer(e)
  ELSE [ok |-> TRUE, e |-> [values |-> <<>>],
        buffer |-> IF k.encoding = "DELTA_LENGTH_BYTE_ARRAY"
                   THEN DeltaLengthByteArray_payload(e.values)
                   ELSE DeltaByteArray_payload(e.values)]

\* the decoder the caller builds for a kind
Decoder_new(k) ==
  IF k.encoding = "PLAIN" THEN PlainDecoder_new(k.T, TypeLength)
  ELSE IF k.encoding = "PLAIN_DICTIONARY" THEN DictDecoder_new
  ELSE IF k.encoding = "DELTA_BINARY_PACKED" THEN DeltaBitPackDecoder_new(k.T)
  ELSE IF k.encoding = "DELTA_LENGTH_BYTE_ARRAY" THEN DeltaLengthByteArrayDecoder_new
  ELSE DeltaByteArrayDecoder_new

\* Decoder::set_data
Decoder_set_data(k, d, buf, num_values) ==
  IF k.encoding = "PLAIN" THEN PlainDecoder_set_data(d, buf, num_values)
  ELSE IF k.encoding = "PLAIN_DICTIONARY" THEN DictDecoder_set_data(d, buf, num_values)
  ELSE IF k.encoding = "DELTA_BINARY_PACKED" THEN DeltaBitPackDecoder_set_data(d, buf)
  ELSE IF k.encoding = "DELTA_LENGTH_BYTE_ARRAY"
  THEN DeltaLengthByteArrayDecoder_set_data(d, buf, num_values)
  ELSE DeltaByteArrayDecoder_set_data(d, buf, num_values)

\* Decoder::get
Decoder_get(k, d, buffer_len) ==
  IF k.encoding = "PLAIN" THEN PlainDecoder_get(d, buffer_len)
  ELSE IF k.encoding = "PLAIN_DICTIONARY" THEN DictDecoder_get(d, buffer_len)
  ELSE IF k.encoding = "DELTA_BINARY_PACKED" THEN DeltaBitPackDecoder_get(d, buffer_len)
  ELSE IF k.encoding = "DELTA_LENGTH_BYTE_ARRAY"
  THEN DeltaLengthByteArrayDecoder_get(d, buffer_len)
  ELSE DeltaByteArrayDecoder_get(d, buffer_len)

\* Decoder::values_left
Decoder_values_left(d) == d.num_values

NoData == [buf |-> <<>>, dict |-> <<>>, num_entries |-> 0]
\* the last call: its outcome, the count it returned, values_left() before and
\* after it, and the total of the lengths asked of get since set_data; for a
\* page reader, seen_num_values before and after it, the pages of the stream
\* consumed before it, and the error it returned
NoCall == [op |-> "new", len |-> 0, st |-> "ok", ret |-> 0, before |-> 0, after |-> 0,
           asked |-> 0, pos |-> 0, why |-> "none"]
NoReader == [stream |-> <<>>, pos |-> 0, total_num_values |-> 0, seen_num_values |-> 0,
             decompressor |-> "none"]

\* the state after the constructors
Init ==
  /\ kind \in Kinds
  /\ enc = Encoder_new(kind)
  /\ dec = Decoder_new(kind)
  /\ expected = <<>>
  /\ data = NoData
  /\ result = <<>>
  /\ last = NoCall
  /\ pc = "put"
  /\ cycle = 0
  /\ nputs = 0
  /\ ngets = 0
  /\ whole = [st |-> "ok", out |-> <<>>]
  /\ reader = NoReader

\* the caller has read as many values as it wrote
Drained == Len(result) >= Len(expected)

\* the next len values of the column, after those in base
NextValues(base, len) == [i \in 1..len |-> Value(kind, cycle, Len(base) + i)]

\* encoder.put(&values[..]) with the next len values of the column; the
\* first put after a flush_buffer starts the next cycle's values, once the
\* caller has read the page or has given up after one get
Put(len) ==
  /\ \/ pc = "put" /\ nputs < MaxPuts
     \/ pc = "decode" /\ cycle < MaxCycles /\ (Drained \/ ngets = 1)
  /\ \E base \in {IF pc = "put" THEN expected ELSE <<>>} :
       \E values \in {NextValues(base, len)} :
         \E p \in {Encoder_put(kind, enc, values)} :
           /\ enc' = p.e
           /\ expected' = base \o values
           /\ pc' = IF p.ok THEN "put" ELSE "enc_err"
           /\ last' = [NoCall EXCEPT !.op = "put", !.len = len,
                                     !.st = IF p.ok THEN "ok" ELSE "err"]
  /\ nputs' = IF pc = "put" THEN nputs + 1 ELSE 1
  /\ UNCHANGED <<kind, dec, data, result, cycle, ngets, whole, reader>>

\* what the caller of flush_buffer takes from the dictionary encoder:
\* write_dict() and num_entries()
DictPage(e) ==
  IF kind.encoding = "PLAIN_DICTIONARY"
  THEN [ok |-> TRUE, buffer |-> DictEncoder_write_dict(e).buffer,
        num_entries |-> DictEncoder_num_entries(e)]
  ELSE [ok |-> TRUE, buffer |-> <<>>, num_entries |-> 0]

\* encoder.flush_buffer(); for the dictionary encoder the caller also takes
\* write_dict() and num_entries()
Flush ==
  /\ pc = "put"
  /\ cycle < MaxCycles
  /\ \E f \in {Encoder_flush_buffer(kind, enc)} :
       \E wd \in {DictPage(f.e)} :
         /\ enc' = f.e
         /\ data' = [buf |-> f.buffer, dict |-> wd.buffer, num_entries |-> wd.num_entries]
         /\ pc' = IF f.ok /\ wd.ok THEN "flushed" ELSE "enc_err"
         /\ last' = [NoCall EXCEPT !.op = "flush_buffer",
                                   !.st = IF f.ok /\ wd.ok THEN "ok" ELSE "err"]
  /\ cycle' = cycle + 1
  /\ UNCHANGED <<kind, dec, expected, result, nputs, ngets, whole, reader>>

\* the pc a decoder call leaves
AfterCall(st, ok_pc) ==
  IF st = "ok" THEN ok_pc ELSE IF st = "err" THEN "dec_err" ELSE "panicked"

\* dict_decoder.set_dict(Box::new(PlainDecoder over the dictionary page))
SetDict ==
  /\ pc = "flushed"
  /\ kind.encoding = "PLAIN_DICTIONARY"
  /\ \E pd \in {PlainDecoder_set_data(PlainDecoder_new(kind.T, TypeLength),
                                      data.dict, data.num_entries)} :
       \E s \in {DictDecoder_set_dict(dec, pd.d, DefaultValue(kind.T))} :
         /\ dec' = s.d
         /\ pc' = AfterCall(s.st, "dictset")
         /\ last' = [NoCall EXCEPT !.op = "set_dict", !.st = s.st]
  /\ UNCHANGED <<kind, enc, expected, data, result, cycle, nputs, ngets, whole, reader>>

\* what one get of the full length returns right after set_data
WholeGet(s, n) ==
  IF s.st # "ok" THEN [st |-> s.st, out |-> <<>>]
  ELSE Bind(Decoder_get(kind, s.d, n), LAMBDA g : [st |-> g.st, out |-> g.out])

\* decoder.set_data(data, num_values); whole records what one get of the
\* full length returns from this state
SetData ==
  /\ \/ pc = "flushed" /\ kind.encoding # "PLAIN_DICTIONARY"
     \/ pc = "dictset"
  /\ \E s \in {Decoder_set_data(kind, dec, data.buf, Len(expected))} :
       /\ dec' = s.d
       /\ pc' = AfterCall(s.st, "decode")
       /\ whole' = WholeGet(s, Len(expected))
       /\ last' = [NoCall EXCEPT !.op = "set_data", !.st = s.st,
                                 !.after = Decoder_values_left(s.d)]
  /\ result' = <<>>
  /\ ngets' = 0
  /\ UNCHANGED <<kind, enc, expected, data, cycle, nputs, reader>>

\* decoder.get(&mut out[..]) with out.len() = len
Get(len) ==
  /\ pc = "decode"
  /\ ngets < MaxGets
  /\ \E g \in {Decoder_get(kind, dec, len)} :
       /\ dec' = g.d
       /\ result' = result \o g.out
       /\ pc' = AfterCall(g.st, "decode")
       /\ last' = [op |-> "get", len |-> len, st |-> g.st, ret |-> g.ret,
                   before |-> Decoder_values_left(dec),
                   after |-> Decoder_values_left(g.d),
                   asked |-> last.asked + len]
  /\ ngets' = ngets + 1
  /\ UNCHANGED <<kind, enc, expected, data, cycle, nputs, whole, reader>>

Next ==
  \/ \E len \in PutLens(kind) : Put(len)
  \/ Flush
  \/ SetDict
  \/ SetData
  \/ \E len \in GetLens(kind) : Get(len)

Spec == Init /\ [][Next]_vars

----------------------------------------------------------------------------
(* Properties of the value codecs, over Spec.                               *)

IsPrefix(s, t) == Len(s) <= Len(t) /\ SubSeq(t, 1, Len(s)) = s

\* a call returned an error or panicked
Failed == pc \in {"enc_err", "dec_err", "panicked"}

\* no call fails, the values read so far are the first values written in the
\* cycle, and one get of the full length returns all of them
RoundTrip ==
  /\ ~Failed
  /\ pc = "decode" => /\ IsPrefix(result, expected)
                      /\ whole = [st |-> "ok", out |-> expected]

\* C1: with DeltaBitPackEncoder and DeltaBitPackDecoder of one type, in every
\* put/flush_buffer cycle and for every split of the values into put calls,
\* set_data on the flushed bytes and draining with get yields exactly the
\* values put since the previous flush_buffer, in order.
C1_DeltaRoundTrip ==
  kind.encoding = "DELTA_BINARY_PACKED" =>
    /\ RoundTrip
    /\ pc = "decode" => Decoder_values_left(dec) = Len(expected) - Len(result)

\* second cycle, 129 values put as 1 + 128 or 128 + 1, all read back
C1_Witness ==
  /\ kind.encoding = "DELTA_BINARY_PACKED"
  /\ cycle = 2 /\ pc = "decode" /\ nputs = 2 /\ ngets >= 2
  /\ Len(expected) = 129
  /\ result = expected

\* C2: with PlainEncoder and PlainDecoder of each physical type, decoding the
\* flushed bytes with the number of values put yields those values in order,
\* in the first cycle and in every later cycle on the same encoder.
C2_PlainRoundTrip == kind.encoding = "PLAIN" => RoundTrip

C5_GetCount ==
  (/\ kind.encoding # "PLAIN_DICTIONARY"
   /\ last.op = "get" /\ last.st = "ok") =>
    /\ last.ret = Min(last.len, last.before)
    /\ last.after = last.before - last.ret

\* a get asked for more than was left and returned what was left
C5_Witness ==
  /\ kind.encoding # "PLAIN_DICTIONARY"
  /\ last.op = "get" /\ last.st = "ok"
  /\ last.before > 0 /\ last.len > last.before
  /\ last.ret = last.before /\ last.after = 0

\* C6: for DictDecoder after set_dict and set_data(buf, n), values_left() is n
\* minus the number of values get has returned so far.
C6_DictValuesLeft ==
  (kind.encoding = "PLAIN_DICTIONARY" /\ pc = "decode") =>
    Decoder_values_left(dec) = Len(expected) - Len(result)

\* C7: for every decoder kind, get calls whose lengths sum to the number of
\* values return together what a single get of the full length returns, and
\* fail only if the single get fails.
C7_PrefixIndependence ==
  (last.op = "get" /\ last.asked <= Len(expected)) =>
    /\ Failed => whole.st # "ok"
    /\ (~Failed /\ last.asked = Len(expected)) => whole = [st |-> "ok", out |-> result]

\* three gets whose lengths sum to the number of values
C7_Witness ==
  /\ last.op = "get" /\ pc = "decode" /\ ngets = 3
  /\ last.asked = Len(expected)
  /\ whole = [st |-> "ok", out |-> result]

\* the suffix written for value i: what follows the prefix shared with value i - 1
Suffixes(values) ==
  [i \in 1..Len(values) |->
     SubSeq(values[i], PrefixLengths(values)[i] + 1, Len(values[i]))]

\* the first n bytes of s
Take(s, n) == SubSeq(s, 1, Min(n, Len(s)))

\* C8: value i returned by DeltaByteArrayDecoder.get is the first prefix_len_i
\* bytes of value i - 1 followed by suffix_i, the value before the first being
\* empty.
C8_PrefixThenSuffix ==
  (kind.encoding = "DELTA_BYTE_ARRAY" /\ pc = "decode") =>
    \A i \in 1..Len(result) :
      /\ i <= Len(dec.prefix_lengths)
      /\ result[i] = Take(IF i = 1 THEN <<>> ELSE result[i - 1],
                          I32ToInt(dec.prefix_lengths[i]))
                       \o Suffixes(expected)[i]

\* the lengths of the values
Lengths(values) == [i \in 1..Len(values) |-> Len(values[i])]

\* C9: after DeltaLengthByteArrayDecoder.set_data on lengths written by
\* DeltaBitPackEncoder<Int32Type> followed by the value bytes, the bytes the
\* decoder keeps start right after the DELTA_BINARY_PACKED payload, for every
\* number of lengths, and value i is the len_i bytes at sum(len_0..len_{i-1}).
C9_LengthsOffset ==
  kind.encoding = "DELTA_LENGTH_BYTE_ARRAY" =>
    /\ ~Failed
    /\ pc = "decode" =>
         /\ Len(data.buf) - Len(dec.data) = Len(DeltaBinaryPackedInt32(Lengths(expected)))
         /\ IsPrefix(result, expected)

----------------------------------------------------------------------------
(* The caller of the level codecs: one LevelEncoder over a buffer of        *)
(* max_buffer_size bytes, one put of all the levels, consume, set_data,     *)
(* get.                                                                     *)

MaxLevelGets == 2   \* get calls after set_data

LevelEncodings == {"RLE", "BIT_PACKED"}
MaxLevels == {0, 1, 3, 4, 256}
LevelCounts == {0, 1, 7, 8, 9, 17, 64, 520}

\* level patterns: 1 counts up, 2 repeats max_level, 3 repeats each level
\* nine times, 4 mixes short runs and changes
LevelKinds ==
  [encoding : LevelEncodings, max_level : MaxLevels, n : LevelCounts, pat : {1, 2, 3, 4}]

\* the i-th level (1-based) of a kind, in 0..max_level
Level(k, i) ==
  IF k.pat = 1 THEN i % (k.max_level + 1)
  ELSE IF k.pat = 2 THEN k.max_level
  ELSE IF k.pat = 3 THEN (i \div 9) % (k.max_level + 1)
  ELSE IF (i \div 12) % 2 = 0 THEN 0 ELSE (i * i + (i \div 3)) % (k.max_level + 1)

Levels(k) == [i \in 1..k.n |-> Level(k, i)]

\* lengths of the buffers handed to LevelDecoder::get
LevelGetLens(k) == {1, 8, k.n}

\* the state after LevelEncoder::new over a zeroed buffer of max_buffer_size
\* bytes and LevelDecoder::new
InitLevels ==
  /\ kind \in LevelKinds
  /\ enc = LevelEncoder_new(
             kind.encoding, kind.max_level,
             Repeat(0, LevelEncoder_max_buffer_size(kind.encoding, kind.max_level, kind.n)))
  /\ dec = LevelDecoder_new(kind.encoding, kind.max_level)
  /\ expected = <<>>
  /\ data = NoData
  /\ result = <<>>
  /\ last = NoCall
  /\ pc = "put"
  /\ cycle = 0
  /\ nputs = 0
  /\ ngets = 0
  /\ whole = [st |-> "ok", out |-> <<>>]
  /\ reader = NoReader

\* encoder.put(&levels[..]) with all n levels
LevelPut ==
  /\ pc = "put"
  /\ \E levels \in {Levels(kind)} :
       \E p \in {LevelEncoder_put(enc, levels)} :
         /\ enc' = p.e
         /\ expected' = levels
         /\ pc' = IF p.st = "ok" THEN "consume" ELSE "enc_err"
         /\ last' = [NoCall EXCEPT !.op = "put", !.len = Len(levels), !.st = p.st,
                                   !.ret = p.ret]
  /\ nputs' = nputs + 1
  /\ UNCHANGED <<kind, dec, data, result, cycle, ngets, whole, reader>>

\* encoder.consume()
LevelConsume ==
  /\ pc = "consume"
  /\ \E c \in {LevelEncoder_consume(enc)} :
       /\ data' = [NoData EXCEPT !.buf = c.buffer]
       /\ pc' = IF c.st = "ok" THEN "flushed" ELSE "enc_err"
       /\ last' = [NoCall EXCEPT !.op = "consume", !.st = c.st]
  /\ UNCHANGED <<kind, enc, dec, expected, result, cycle, nputs, ngets, whole, reader>>

\* decoder.set_data(n, data)
LevelSetData ==
  /\ pc = "flushed"
  /\ \E s \in {LevelDecoder_set_data(dec, Len(expected), data.buf)} :
       /\ dec' = s.d
       /\ pc' = AfterCall(s.st, "decode")
       /\ last' = [NoCall EXCEPT !.op = "set_data", !.st = s.st, !.ret = s.ret,
                                 !.len = Len(expected), !.after = s.d.num_values]
  /\ result' = <<>>
  /\ ngets' = 0
  /\ UNCHANGED <<kind, enc, expected, data, cycle, nputs, whole, reader>>

\* the bytes of consume() that hold the levels: all of them for BIT_PACKED,
\* those after the four bytes of the length for RLE
LevelRange(k, buf) ==
  IF k.encoding = "RLE" THEN [start |-> 4, len |-> Len(buf) - 4]
  ELSE [start |-> 0, len |-> Len(buf)]

\* decoder.set_data_range(n, &data, start, len)
LevelSetDataRange ==
  /\ pc = "flushed"
  /\ \E range \in {LevelRange(kind, data.buf)} :
       \E s \in {LevelDecoder_set_data_range(dec, Len(expected), data.buf,
                                             range.start, range.len)} :
         /\ dec' = s.d
         /\ pc' = AfterCall(s.st, "decode")
         /\ last' = [NoCall EXCEPT !.op = "set_data_range", !.st = s.st, !.ret = s.ret,
                                   !.len = range.len, !.after = s.d.num_values]
  /\ result' = <<>>
  /\ ngets' = 0
  /\ UNCHANGED <<kind, enc, expected, data, cycle, nputs, whole, reader>>

\* decoder.get(&mut buffer[..]) with buffer.len() = len
LevelGet(len) ==
  /\ pc = "decode"
  /\ ngets < MaxLevelGets
  /\ \E g \in {LevelDecoder_get(dec, len)} :
       /\ dec' = g.d
       /\ result' = result \o g.out
       /\ pc' = AfterCall(g.st, "decode")
       /\ last' = [op |-> "get", len |-> len, st |-> g.st, ret |-> g.ret,
                   before |-> dec.num_values, after |-> g.d.num_values,
                   asked |-> last.asked + len, pos |-> 0, why |-> "none"]
  /\ ngets' = ngets + 1
  /\ UNCHANGED <<kind, enc, expected, data, cycle, nputs, whole, reader>>

NextLevels ==
  \/ LevelPut
  \/ LevelConsume
  \/ LevelSetData
  \/ LevelSetDataRange
  \/ \E len \in LevelGetLens(kind) : LevelGet(len)

SpecLevels == InitLevels /\ [][NextLevels]_vars

\* C4: for RLE and BIT_PACKED, a LevelEncoder over max_buffer_size(encoding,
\* max_level, n) bytes accepts n levels in one put and returns n, and after
\* set_data(n, consume()) a get into a buffer of length n returns n and the
\* levels put.
C4_LevelRoundTrip ==
  /\ last.op # "set_data_range" => ~Failed
  /\ last.op = "put" => last.ret = kind.n
  /\ (last.op = "get" /\ ngets = 1 /\ last.len = kind.n) =>
       last.ret = kind.n /\ result = expected

\* 520 levels of 9 bits in runs of both kinds, read back in one get
C4_Witness ==
  /\ kind = [encoding |-> "RLE", max_level |-> 256, n |-> 520, pat |-> 4]
  /\ last.op = "get" /\ ngets = 1 /\ last.len = 520 /\ last.ret = 520
  /\ result = expected

----------------------------------------------------------------------------
(* SerializedPageReader (file/reader.rs).  The chunk is the sequence of its *)
(* pages, each a decoded PageHeader and the body bytes that follow it; the  *)
(* block codec expands (count, byte) pairs.                                 *)

\* Codec::decompress(input, output): the bytes written to output
decompress(input) ==
  Flatten([i \in 1..(Len(input) \div 2) |-> Repeat(input[2 * i], input[2 * i - 1])])

\* create_codec(compression): none for UNCOMPRESSED
create_codec(compression) == IF compression = "UNCOMPRESSED" THEN "none" ELSE compression

\* SerializedPageReader::new(buf, total_num_values, compression)
SerializedPageReader_new(stream, total_num_values, compression) ==
  [stream |-> stream, pos |-> 0, total_num_values |-> total_num_values,
   seen_num_values |-> 0, decompressor |-> create_codec(compression)]

\* read_page_header and read_exact: the next header and body of the stream
read_page_header(r) ==
  IF r.pos >= Len(r.stream) THEN [ok |-> FALSE, r |-> r]
  ELSE [ok |-> TRUE, r |-> [r EXCEPT !.pos = @ + 1],
        page_header |-> r.stream[r.pos + 1].header, body |-> r.stream[r.pos + 1].body]

\* the decompression step without the comparison of the sizes
page_buffer_unchecked(decompressor, page_header, body) ==
  [ok |-> TRUE, buffer |-> IF decompressor = "none" THEN body ELSE decompress(body)]

\* the decompression step of get_next_page: the page's buffer after it
page_buffer(decompressor, page_header, body) ==
  IF decompressor = "none" THEN [ok |-> TRUE, buffer |-> body]
  ELSE Bind(decompress(body), LAMBDA decompressed_buffer :
           IF Len(decompressed_buffer) # page_header.uncompressed_page_size
           THEN [ok |-> FALSE, buffer |-> <<>>]
           ELSE [ok |-> TRUE, buffer |-> decompressed_buffer])

\* `match page_header.type_`: <<the page record>>, or <<>> for a type that is
\* skipped; is_compressed of a DATA_PAGE_V2 header is "true", "false" or
\* "absent"
page_record(page_header, buffer) ==
  IF page_header.type \in {"DICTIONARY_PAGE", "DATA_PAGE"}
  THEN <<[type |-> page_header.type, num_values |-> page_header.num_values,
          buf |-> buffer]>>
  ELSE IF page_header.type = "DATA_PAGE_V2"
  THEN <<[type |-> page_header.type, num_values |-> page_header.num_values,
          buf |-> buffer, is_compressed |-> page_header.is_compressed # "false"]>>
  ELSE <<>>

\* the body of get_next_page's loop once read_page_header has returned h
get_next_page_body(h) ==
  IF ~h.ok
  THEN [st |-> "err", why |-> "Eof", r |-> h.r, page |-> <<>>, again |-> FALSE]
  ELSE
    Bind(page_buffer(h.r.decompressor, h.page_header, h.body), LAMBDA b :
        IF ~b.ok
        THEN [st |-> "err", why |-> "SizeMismatch", r |-> h.r, page |-> <<>>,
              again |-> FALSE]
        ELSE
          Bind(page_record(h.page_header, b.buffer), LAMBDA page :
              IF page = <<>>
              THEN [st |-> "ok", why |-> "none", r |-> h.r, page |-> <<>>,
                    again |-> TRUE]
              ELSE [st |-> "ok", why |-> "none",
                    r  |-> [h.r EXCEPT !.seen_num_values =
                                         @ + h.page_header.num_values],
                    page |-> page, again |-> FALSE]))

\* a turn of the loop that reads the page header before the test of the loop
get_next_page_turn_reading_first(r) ==
  Bind(read_page_header(r), LAMBDA h :
      IF ~(r.seen_num_values < r.total_num_values)
      THEN [st |-> "ok", why |-> "none", r |-> h.r, page |-> <<>>, again |-> FALSE]
      ELSE get_next_page_body(h))

\* one turn of the loop `while self.seen_num_values < self.total_num_values`
\* of get_next_page; again when the page was skipped and the loop goes on
get_next_page_turn(r) ==
  IF ~(r.seen_num_values < r.total_num_values)
  THEN [st |-> "ok", why |-> "none", r |-> r, page |-> <<>>, again |-> FALSE]
  ELSE get_next_page_body(read_page_header(r))

RECURSIVE get_next_page_loop(_, _)
\* at most `turns` turns of get_next_page's loop, by halves
get_next_page_loop(t, turns) ==
  IF ~t.again THEN t
  ELSE IF turns <= 1 THEN get_next_page_turn(t.r)
  ELSE get_next_page_loop(get_next_page_loop(t, turns \div 2), turns - (turns \div 2))

\* get_next_page giving none in place of a page it skips
get_next_page_ending_at_skipped_page(r) ==
  Bind(get_next_page_turn(r), LAMBDA t :
      [st |-> t.st, why |-> t.why, r |-> t.r, page |-> t.page])

\* PageReader::get_next_page: page is <<>> for None, else <<the page>>; every
\* turn but the last consumes a page of the stream
get_next_page(r) ==
  Bind(get_next_page_loop(
         [st |-> "ok", why |-> "none", r |-> r, page |-> <<>>, again |-> TRUE],
         Len(r.stream) - r.pos + 2), LAMBDA t :
      [st |-> t.st, why |-> t.why, r |-> t.r, page |-> t.page])

----------------------------------------------------------------------------
(* The caller of the page reader: get_next_page until it has returned none  *)
(* or an error.                                                             *)

MaxCalls == 5   \* get_next_page calls on one reader

\* the column chunks read: dict is the number of values of the dictionary
\* page (-1: no dictionary page), pages the num_values of the data pages,
\* v2 whether the data pages after the first are DATA_PAGE_V2 and what their
\* headers say of is_compressed, index whether an INDEX_PAGE follows the
\* first page, total the chunk's num_values against the sum over the data
\* pages, sized which pages of the chunk have the right uncompressed_page_size,
\* next whether another column chunk follows this one in the file
ChunkKinds ==
  [encoding : {"PAGES"}, dict : {-1, 0, 3},
   pages : {<<>>, <<2>>, <<2, 3>>, <<1, 1, 1>>, <<0, 2>>},
   v2 : {"none", "true", "false", "absent"}, index : BOOLEAN,
   compression : {"UNCOMPRESSED", "SNAPPY"},
   total : {"sum", "less", "more"}, sized : {"all", "first", "none"},
   next : BOOLEAN]

\* the n bytes of a page's payload: its length, then bytes b
Payload(n, b) == IF n = 0 THEN <<>> ELSE <<n>> \o Repeat(b, n - 1)

\* bytes that decompress expands to `bytes`
Compressed(bytes) == Flatten([i \in 1..Len(bytes) |-> <<1, bytes[i]>>])

\* the body of a page of n bytes: the payload as it is when the chunk is
\* uncompressed or the page is marked as not compressed, else compressed
Body(k, is_compressed, n, b) ==
  IF k.compression = "UNCOMPRESSED" \/ is_compressed = "false" THEN Payload(n, b)
  ELSE Compressed(Payload(n, b))

\* a page of the chunk holding n bytes b
ChunkPage(k, type, is_compressed, num_values, n, b) ==
  [header |-> [type |-> type, num_values |-> num_values,
               is_compressed |-> is_compressed,
               compressed_page_size |-> Len(Body(k, is_compressed, n, b)),
               uncompressed_page_size |-> n],
   body   |-> Body(k, is_compressed, n, b)]

\* the data pages of a chunk
DataPages(k) ==
  [i \in 1..Len(k.pages) |->
     IF k.v2 # "none" /\ i > 1
     THEN ChunkPage(k, "DATA_PAGE_V2", k.v2, k.pages[i], k.pages[i], i)
     ELSE ChunkPage(k, "DATA_PAGE", "absent", k.pages[i], k.pages[i], i)]

\* the pages with the uncompressed_page_size of k.sized
Missized(k, ps) ==
  [i \in 1..Len(ps) |->
     IF k.sized = "all" \/ (k.sized = "first" /\ i = 1) THEN ps[i]
     ELSE [ps[i] EXCEPT !.header.uncompressed_page_size = @ + 1]]

\* the pages of a chunk in stream order
ChunkStream(k) ==
  Bind((IF k.dict >= 0
        THEN <<ChunkPage(k, "DICTIONARY_PAGE", "absent", k.dict, 4 * k.dict, 255)>>
        ELSE <<>>) \o DataPages(k),
       LAMBDA ps :
         Missized(k, IF k.index /\ ps # <<>>
                     THEN <<Head(ps), ChunkPage(k, "INDEX_PAGE", "absent", 0, 1, 7)>>
                            \o Tail(ps)
                     ELSE ps))

\* the file: the last page of the column chunk before this one, the chunk,
\* and the first page of the column chunk after it
FilePages(k) ==
  <<ChunkPage(k, "DATA_PAGE", "absent", 1, 1, 8)>> \o ChunkStream(k)
    \o (IF k.next THEN <<ChunkPage(k, "DATA_PAGE", "absent", 2, 2, 9)>> ELSE <<>>)

\* col.num_values() of the chunk's metadata
ChunkTotal(k) ==
  Bind(SumTo(k.pages, 1, Len(k.pages)), LAMBDA sum :
      IF k.total = "sum" THEN sum
      ELSE IF k.total = "less" THEN Max(sum - 1, 0)
      ELSE sum + 1)

\* ColumnChunkMetaData of the chunk; offsets and sizes count pages of the file
ColumnMeta(k) ==
  [has_dictionary_page    |-> k.dict >= 0,
   dictionary_page_offset |-> 1,
   data_page_offset       |-> IF k.dict < 0 THEN 1 ELSE IF k.index THEN 3 ELSE 2,
   compressed_size        |-> Len(ChunkStream(k)),
   num_values             |-> ChunkTotal(k),
   compression            |-> k.compression]

\* SerializedRowGroupReader::get_column_page_reader: the reader is seeked to
\* col_start, and buf.take(col_length).into_inner() is the reader under the
\* Take, which runs to the end of the file
get_column_page_reader(file, col) ==
  Bind(IF col.has_dictionary_page THEN col.dictionary_page_offset
       ELSE col.data_page_offset, LAMBDA col_start :
      SerializedPageReader_new(SubSeq(file, col_start + 1, Len(file)),
                               col.num_values, col.compression))

\* the state after get_column_page_reader
InitPages ==
  /\ kind \in ChunkKinds
  /\ reader = get_column_page_reader(FilePages(kind), ColumnMeta(kind))
  /\ enc = <<>>
  /\ dec = <<>>
  /\ expected = <<>>
  /\ data = NoData
  /\ result = <<>>
  /\ last = NoCall
  /\ pc = "read"
  /\ cycle = 0
  /\ nputs = 0
  /\ ngets = 0
  /\ whole = [st |-> "ok", out |-> <<>>]

\* page_reader.get_next_page(); result collects the pages returned
GetNextPage ==
  /\ pc \in {"read", "done"}
  /\ ngets < MaxCalls
  /\ \E g \in {get_next_page(reader)} :
       /\ reader' = g.r
       /\ result' = result \o g.page
       /\ pc' = IF g.st # "ok" THEN "dec_err" ELSE IF g.page = <<>> THEN "done" ELSE "read"
       /\ last' = [NoCall EXCEPT !.op = "get_next_page", !.st = g.st, !.ret = Len(g.page),
                                 !.before = reader.seen_num_values,
                                 !.after = g.r.seen_num_values,
                                 !.pos = reader.pos, !.why = g.why]
  /\ ngets' = ngets + 1
  /\ UNCHANGED <<kind, enc, dec, expected, data, cycle, nputs, whole>>

NextPages == GetNextPage

SpecPages == InitPages /\ [][NextPages]_vars

\* the pages of the chunk as the reader is to hand them out
PagesOf(k) ==
  Bind(ChunkStream(k), LAMBDA ps :
      Flatten([i \in 1..Len(ps) |->
         page_record(ps[i].header,
                     IF k.compression = "UNCOMPRESSED" \/ ps[i].header.is_compressed = "false"
                     THEN ps[i].body ELSE decompress(ps[i].body))]))

\* an optional dictionary page, then data pages whose num_values sum to the
\* chunk's total_num_values
ChunkWellFormed(k) == k.total = "sum" /\ ~k.index /\ k.sized = "all"

\* C10: for a chunk holding an optional dictionary page followed by data
\* pages whose num_values sum to total_num_values, get_next_page has returned
\* every page of the chunk, in stream order, when it returns none.
C10_EveryPageReturned ==
  (ChunkWellFormed(kind) /\ pc = "done") => result = PagesOf(kind)

\* C11: a get_next_page call made with seen_num_values >= total_num_values
\* returns none and reads nothing from the stream, and after a call that
\* returned none every later call returns none and leaves the reader as it
\* was.
C11_NoneIsFinal ==
  [][ (\/ reader.seen_num_values >= reader.total_num_values
       \/ (last.op = "get_next_page" /\ last.st = "ok" /\ last.ret = 0))
      => /\ reader' = reader
         /\ result' = result
         /\ last'.st = "ok" /\ last'.ret = 0 ]_vars

\* none returned at least twice by a reader that has read pages and has pages
\* of the stream left unread
C11_Witness ==
  /\ pc = "done" /\ ngets >= Len(result) + 2
  /\ reader.pos > 0 /\ reader.pos < Len(reader.stream)
  /\ last.pos = reader.pos

\* the pages of a stream that get_next_page does not skip
KnownPages(stream) ==
  SelectSeq(stream, LAMBDA p :
              p.header.type \in {"DICTIONARY_PAGE", "DATA_PAGE", "DATA_PAGE_V2"})

\* C12: the buf of a returned DATA_PAGE_V2 whose header has is_compressed =
\* false holds the payload bytes as read from the stream, and with no
\* decompressor installed the buf of every returned page holds the bytes as
\* read.
C12_UnmarkedPagesAsRead ==
  \A i \in 1..Len(result) :
    Bind(KnownPages(reader.stream)[i], LAMBDA p :
        (\/ reader.decompressor = "none"
         \/ (p.header.type = "DATA_PAGE_V2" /\ p.header.is_compressed = "false"))
        => result[i].buf = p.body)

\* the decompressed length of the page differs from its uncompressed_page_size
SizeMismatch(p) == Len(decompress(p.body)) # p.header.uncompressed_page_size

\* C13: with a decompressor installed, a get_next_page call that reads a page
\* whose decompressed length differs from the header's uncompressed_page_size
\* stops at that page with an error, returns no page and leaves
\* seen_num_values as it was; and the buf of every page returned has
\* uncompressed_page_size bytes.
C13_SizeMismatchIsError ==
  reader.decompressor # "none" =>
    /\ \A j \in (last.pos + 1)..reader.pos :
         (last.op = "get_next_page" /\ SizeMismatch(reader.stream[j])) =>
           /\ j = reader.pos
           /\ last.st = "err" /\ last.ret = 0
           /\ last.after = last.before /\ reader.seen_num_values = last.before
    /\ \A i \in 1..Len(result) :
         Len(result[i].buf) = KnownPages(reader.stream)[i].header.uncompressed_page_size

\* a size mismatch met after a page was returned
C13_Witness ==
  /\ reader.decompressor # "none"
  /\ last.op = "get_next_page" /\ last.why = "SizeMismatch"
  /\ SizeMismatch(reader.stream[reader.pos])
  /\ Len(result) >= 1 /\ Len(result[1].buf) > 0

\* a page of a type that get_next_page skips
UnknownType(p) == p.header.type \notin {"DICTIONARY_PAGE", "DATA_PAGE", "DATA_PAGE_V2"}

\* the call read on after the j-th page of the stream: it consumed a later
\* page, or failed to read the next page header
ReadOnAfter(j) == j < reader.pos \/ (last.st = "err" /\ last.why = "Eof")

\* the call changed seen_num_values by the num_values of the page it returned
SeenOnlyReturned ==
  /\ last.ret = 1 =>
       /\ ~UnknownType(reader.stream[reader.pos])
       /\ <<result[Len(result)]>> =
            page_record(reader.stream[reader.pos].header, result[Len(result)].buf)
  /\ last.after - last.before =
       IF last.ret = 1 THEN reader.stream[reader.pos].header.num_values ELSE 0
  /\ reader.seen_num_values = last.after

\* C14 as stated: a page of another type than DICTIONARY_PAGE, DATA_PAGE and
\* DATA_PAGE_V2 that a get_next_page call consumes gives no page and no
\* error and leaves seen_num_values alone, and the call reads on with the
\* next page header.
C14_UnknownPagesSkipped ==
  last.op = "get_next_page" =>
    /\ (last.before < reader.total_num_values /\ last.pos < Len(reader.stream))
         => reader.pos > last.pos
    /\ \A j \in (last.pos + 1)..reader.pos :
         UnknownType(reader.stream[j]) => ReadOnAfter(j)
    /\ SeenOnlyReturned

\* C14 amended: a page of another type than DICTIONARY_PAGE, DATA_PAGE and
\* DATA_PAGE_V2 whose payload passes the decompression step (no decompressor
\* installed, or the decompressed length equal to uncompressed_page_size) is
\* consumed, gives no page and no error and leaves seen_num_values alone,
\* and the call reads on with the next page header.
C14_UnknownPagesSkippedWhenSized ==
  last.op = "get_next_page" =>
    /\ (last.before < reader.total_num_values /\ last.pos < Len(reader.stream))
         => reader.pos > last.pos
    /\ \A j \in (last.pos + 1)..reader.pos :
         (/\ UnknownType(reader.stream[j])
          /\ (reader.decompressor = "none" \/ ~SizeMismatch(reader.stream[j])))
         => ReadOnAfter(j)
    /\ SeenOnlyReturned

\* a call that consumed an INDEX_PAGE through the decompressor and returned
\* the page after it
C14_Witness ==
  /\ last.op = "get_next_page" /\ last.ret = 1
  /\ reader.pos = last.pos + 2
  /\ UnknownType(reader.stream[last.pos + 1])
  /\ reader.decompressor # "none"

\* C15: the reader of get_column_page_reader reads no page of the file
\* outside the chunk, the compressed_size pages from col_start on.
C15_ReadsWithinChunk == reader.pos <= ColumnMeta(kind).compressed_size

\* C16: a DELTA_BINARY_PACKED page of values that alternate between the least
\* and the greatest value of the type (INT32 or INT64) decodes to the values
\* put, each of them the least or the greatest value, in every cycle and for
\* every split into put and get calls.
C16_MinMaxRoundTrip ==
  (kind.encoding = "DELTA_BINARY_PACKED" /\ kind.pat = 4) =>
    /\ ~Failed
    /\ \A i \in 1..Len(expected) :
         /\ expected[i] \in {MinValue(kind.T), MaxValue(kind.T)}
         /\ i > 1 => expected[i] # expected[i - 1]
    /\ pc = "decode" =>
         /\ IsPrefix(result, expected)
         /\ whole = [st |-> "ok", out |-> expected]

\* 129 INT32 values alternating between MIN and MAX, over the block boundary,
\* all read back
C16_Witness ==
  /\ kind = [encoding |-> "DELTA_BINARY_PACKED", T |-> "INT32", pat |-> 4]
  /\ pc = "decode" /\ Len(expected) = 129
  /\ expected[2] = MinValue("INT32") /\ expected[3] = MaxValue("INT32")
  /\ result = expected

\* the distinct values of vs in order of first occurrence
FirstOccurrences(vs) ==
  Bind(SelectSeq([i \in 1..Len(vs) |-> i],
                 LAMBDA i : \A j \in 1..(i - 1) : vs[j] # vs[i]), LAMBDA first :
      [k \in 1..Len(first) |-> vs[first[k]]])

\* the 0-based position of v in uniques, -1 when it is not there
PositionIn(uniques, v) ==
  IF \E p \in 1..Len(uniques) : uniques[p] = v
  THEN (CHOOSE p \in 1..Len(uniques) : uniques[p] = v) - 1
  ELSE -1

\* uniques holds no value twice; between the put calls of a cycle the k-th
\* buffered index is the position in uniques of the k-th value put since the
\* last write_indices; in the first cycle uniques is the distinct values put
\* so far in order of first occurrence
DictEncoderState ==
  /\ \A p, q \in 1..Len(enc.uniques) : enc.uniques[p] = enc.uniques[q] => p = q
  /\ pc = "put" =>
       /\ Len(enc.buffered_indices) = Len(expected)
       /\ \A k \in 1..Len(expected) :
            /\ enc.buffered_indices[k] \in 0..(Len(enc.uniques) - 1)
            /\ enc.buffered_indices[k] = PositionIn(enc.uniques, expected[k])
  /\ (pc = "put" /\ cycle = 0) => enc.uniques = FirstOccurrences(expected)

\* a put leaves uniques followed by the new distinct values in order of first
\* occurrence and appends the positions of the values put to the buffered
\* indices; no other call changes uniques
DictEncoderStep ==
  IF last'.op = "put"
  THEN Bind(IF pc = "put" THEN SubSeq(expected', Len(expected) + 1, Len(expected'))
            ELSE expected', LAMBDA values :
           /\ enc'.uniques = FirstOccurrences(enc.uniques \o values)
           /\ enc'.buffered_indices =
                enc.buffered_indices
                  \o [k \in 1..Len(values) |-> PositionIn(enc'.uniques, values[k])])
  ELSE enc'.uniques = enc.uniques

IndexBitWidth(N) ==
  IF N = 0 THEN 0 ELSE IF N = 1 THEN 1
  ELSE CHOOSE k \in 1..31 : N <= 2 ^ k /\ N > 2 ^ (k - 1)

\* C18: the first byte written by write_indices is the bit width for
\* N = num_entries(): 0 when N = 0, 1 when N = 1, else ceil(log2(N)); and
\* every buffered index is in 0..N-1 and below 2^bit_width.
C18_IndexBitWidth ==
  kind.encoding = "PLAIN_DICTIONARY" =>
    /\ (last.op = "flush_buffer" /\ last.st = "ok") =>
         /\ data.num_entries = Len(enc.uniques)
         /\ data.buf # <<>>
         /\ data.buf[1] = IndexBitWidth(data.num_entries)
    /\ \A k \in 1..Len(enc.buffered_indices) :
         /\ enc.buffered_indices[k] \in 0..(Len(enc.uniques) - 1)
         /\ enc.buffered_indices[k] < 2 ^ IndexBitWidth(Len(enc.uniques))

\* indices written for a dictionary of five entries, in three bits
C18_Witness ==
  /\ kind.encoding = "PLAIN_DICTIONARY"
  /\ last.op = "flush_buffer" /\ last.st = "ok"
  /\ data.num_entries = 5 /\ data.buf[1] = 3
  /\ Len(expected) >= 20

----------------------------------------------------------------------------
(* get_decoder (decoding.rs) and get_encoder (encoding.rs): the object      *)
(* built for an encoding and a type T, and its first use.                   *)

AllEncodings == {"PLAIN", "PLAIN_DICTIONARY", "RLE", "BIT_PACKED", "DELTA_BINARY_PACKED",
                 "DELTA_LENGTH_BYTE_ARRAY", "DELTA_BYTE_ARRAY", "RLE_DICTIONARY"}

\* get_decoder::<T>(descr, encoding)
get_decoder(encoding, T) ==
  IF encoding = "PLAIN"
  THEN [st |-> "ok", why |-> "none", d |-> PlainDecoder_new(T, TypeLength)]
  ELSE IF encoding = "DELTA_BINARY_PACKED"
  THEN [st |-> "ok", why |-> "none", d |-> DeltaBitPackDecoder_new(T)]
  ELSE IF encoding = "DELTA_LENGTH_BYTE_ARRAY"
  THEN [st |-> "ok", why |-> "none", d |-> DeltaLengthByteArrayDecoder_new]
  ELSE IF encoding = "DELTA_BYTE_ARRAY"
  THEN [st |-> "ok", why |-> "none", d |-> DeltaByteArrayDecoder_new]
  ELSE IF encoding \in {"RLE_DICTIONARY", "PLAIN_DICTIONARY"}
  THEN [st |-> "err", why |-> "General", d |-> <<>>]
  ELSE [st |-> "err", why |-> "NYI", d |-> <<>>]

\* DeltaBitPackEncoderConversion::assert_supported_type: FALSE where the
\* default impl panics
assert_supported_type(T) == T \in {"INT32", "INT64"}

\* get_encoder::<T>(desc, encoding, mem_tracker)
get_encoder(encoding, T) ==
  IF encoding = "PLAIN"
  THEN [st |-> "ok", why |-> "none", e |-> PlainEncoder_new(T)]
  ELSE IF encoding \in {"RLE_DICTIONARY", "PLAIN_DICTIONARY"}
  THEN [st |-> "ok", why |-> "none", e |-> DictEncoder_new(T)]
  ELSE IF encoding = "DELTA_BINARY_PACKED"
  THEN IF assert_supported_type(T)
       THEN [st |-> "ok", why |-> "none", e |-> DeltaBitPackEncoder_new(T)]
       ELSE [st |-> "panic", why |-> "none", e |-> <<>>]
  ELSE [st |-> "err", why |-> "NYI", e |-> <<>>]

\* Decoder::<T>::set_data of the decoder built: the default impls of the
\* byte-array decoders return an error for every T but ByteArrayType
Decoder_set_data_of(encoding, T, d, buf, num_values) ==
  IF encoding \in {"DELTA_LENGTH_BYTE_ARRAY", "DELTA_BYTE_ARRAY"} /\ T # "BYTE_ARRAY"
  THEN [st |-> "err", d |-> d]
  ELSE Decoder_set_data([encoding |-> encoding, T |-> T], d, buf, num_values)

\* Decoder::<T>::get of the decoder built: the default impls of the
\* byte-array decoders return an error, and the default set_decoded_value of
\* DeltaBitPackDecoder returns one at the first value decoded
Decoder_get_of(encoding, T, d, buffer_len) ==
  IF encoding \in {"DELTA_LENGTH_BYTE_ARRAY", "DELTA_BYTE_ARRAY"} /\ T # "BYTE_ARRAY"
  THEN [st |-> "err", d |-> d, ret |-> 0, out |-> <<>>]
  ELSE IF encoding = "DELTA_BINARY_PACKED" /\ T \notin {"INT32", "INT64"}
  THEN IF ~d.initialized THEN [st |-> "panic", d |-> d, ret |-> 0, out |-> <<>>]
       ELSE IF Min(buffer_len, d.num_values) = 0
       THEN [st |-> "ok", d |-> d, ret |-> 0, out |-> <<>>]
       ELSE [st |-> "err", d |-> d, ret |-> 0, out |-> <<>>]
  ELSE Decoder_get([encoding |-> encoding, T |-> T], d, buffer_len)

\* the requests made: a decoder or an encoder of an encoding for a type
FactoryKinds == [role : {"decoder", "encoder"}, encoding : AllEncodings, T : PhysicalTypes]

\* the type whose values fill a page of the encoding read as type T
PageType(encoding, T) ==
  IF encoding = "DELTA_BINARY_PACKED" /\ T \notin {"INT32", "INT64"} THEN "INT32"
  ELSE IF encoding \in {"DELTA_LENGTH_BYTE_ARRAY", "DELTA_BYTE_ARRAY"} THEN "BYTE_ARRAY"
  ELSE T

\* the writer of the values handed to the object built for a request
WriterKind(k) ==
  [encoding |-> IF k.encoding = "RLE_DICTIONARY" THEN "PLAIN_DICTIONARY" ELSE k.encoding,
   T |-> PageType(k.encoding, k.T), pat |-> 1]

\* n values of a writer kind
FactoryValues(w, n) == [i \in 1..n |-> Value(w, 0, i)]

\* the page of n values a decoder built for a request is given
FactoryPage(k, n) ==
  Bind(WriterKind(k), LAMBDA w :
      Encoder_flush_buffer(w, Encoder_put(w, Encoder_new(w), FactoryValues(w, n)).e).buffer)

\* the state before the request is made
InitFactory ==
  /\ kind \in FactoryKinds
  /\ enc = <<>>
  /\ dec = <<>>
  /\ expected = <<>>
  /\ data = NoData
  /\ result = <<>>
  /\ last = NoCall
  /\ pc = "new"
  /\ cycle = 0
  /\ nputs = 0
  /\ ngets = 0
  /\ whole = [st |-> "ok", out |-> <<>>]
  /\ reader = NoReader

\* the pc a constructor call leaves
AfterNew(st) == IF st = "ok" THEN "built" ELSE IF st = "err" THEN "new_err" ELSE "panicked"

\* get_decoder::<T>(descr, encoding)
GetDecoder ==
  /\ pc = "new" /\ kind.role = "decoder"
  /\ \E g \in {get_decoder(kind.encoding, kind.T)} :
       /\ dec' = g.d
       /\ pc' = AfterNew(g.st)
       /\ last' = [NoCall EXCEPT !.op = "get_decoder", !.st = g.st, !.why = g.why]
  /\ UNCHANGED <<kind, enc, expected, data, result, cycle, nputs, ngets, whole, reader>>

\* get_encoder::<T>(desc, encoding, mem_tracker)
GetEncoder ==
  /\ pc = "new" /\ kind.role = "encoder"
  /\ \E g \in {get_encoder(kind.encoding, kind.T)} :
       /\ enc' = g.e
       /\ pc' = AfterNew(g.st)
       /\ last' = [NoCall EXCEPT !.op = "get_encoder", !.st = g.st, !.why = g.why]
  /\ UNCHANGED <<kind, dec, expected, data, result, cycle, nputs, ngets, whole, reader>>

\* decoder.set_data(page, n) on a page of n values
FactorySetData(n) ==
  /\ pc = "built" /\ kind.role = "decoder"
  /\ \E buf \in {FactoryPage(kind, n)} :
       \E s \in {Decoder_set_data_of(kind.encoding, kind.T, dec, buf, n)} :
         /\ dec' = s.d
         /\ data' = [NoData EXCEPT !.buf = buf]
         /\ pc' = AfterCall(s.st, "decode")
         /\ last' = [NoCall EXCEPT !.op = "set_data", !.st = s.st, !.len = n]
  /\ expected' = FactoryValues(WriterKind(kind), n)
  /\ UNCHANGED <<kind, enc, result, cycle, nputs, ngets, whole, reader>>

\* decoder.get(&mut out[..]) with out.len() = len, once
FactoryGet(len) ==
  /\ pc = "decode" /\ kind.role = "decoder"
  /\ \E g \in {Decoder_get_of(kind.encoding, kind.T, dec, len)} :
       /\ dec' = g.d
       /\ result' = g.out
       /\ pc' = AfterCall(g.st, "used")
       /\ last' = [NoCall EXCEPT !.op = "get", !.st = g.st, !.len = len, !.ret = g.ret]
  /\ ngets' = 1
  /\ UNCHANGED <<kind, enc, expected, data, cycle, nputs, whole, reader>>

\* encoder.put(&values[..]) with n values of the type, once, for the
\* writers of the (encoding, type) pairs exercised
FactoryPut(n) ==
  /\ pc = "built" /\ kind.role = "encoder"
  /\ Supported(WriterKind(kind).encoding, kind.T)
  /\ \E values \in {FactoryValues(WriterKind(kind), n)} :
       \E p \in {Encoder_put(WriterKind(kind), enc, values)} :
         /\ enc' = p.e
         /\ expected' = values
         /\ pc' = IF p.ok THEN "used" ELSE "enc_err"
         /\ last' = [NoCall EXCEPT !.op = "put", !.len = n,
                                   !.st = IF p.ok THEN "ok" ELSE "err"]
  /\ nputs' = 1
  /\ UNCHANGED <<kind, dec, data, result, cycle, ngets, whole, reader>>

NextFactory ==
  \/ GetDecoder
  \/ GetEncoder
  \/ \E n \in {0, 1, 3} : FactorySetData(n)
  \/ \E len \in {1, 3} : FactoryGet(len)
  \/ \E n \in {0, 1, 3} : FactoryPut(n)

SpecFactory == InitFactory /\ [][NextFactory]_vars

\* the encoding is not valid for the type T
InvalidFor(encoding, T) ==
  \/ encoding = "DELTA_BINARY_PACKED" /\ T \notin {"INT32", "INT64"}
  \/ encoding \in {"DELTA_LENGTH_BYTE_ARRAY", "DELTA_BYTE_ARRAY"} /\ T # "BYTE_ARRAY"

\* C19: get_decoder and get_encoder return an error, at the call that builds
\* the object, when the encoding asked for is not valid for the type T: no
\* object is built that fails at its first use, and the call does not panic.
C19_InvalidFailsAtConstruction ==
  (InvalidFor(kind.encoding, kind.T) /\ pc # "new") =>
    /\ pc = "new_err"
    /\ last.op \in {"get_decoder", "get_encoder"} /\ last.st = "err"

\* C20: set_data_range on a LevelDecoder created with BIT_PACKED returns an
\* error to the caller and sets no data; on one created with RLE it succeeds
\* and returns len.
C20_RangeOnBitPackedIsError ==
  last.op = "set_data_range" =>
    IF kind.encoding = "BIT_PACKED"
    THEN last.st = "err" /\ ~dec.has_num_values
    ELSE last.st = "ok" /\ last.ret = last.len /\ dec.has_num_values

----------------------------------------------------------------------------
(* A decoder handed pages by its caller: set_dict, set_data and get in any  *)
(* order, on the page written for the column, on that page cut short, and   *)
(* on a second page of the same column.                                     *)

MaxCut == 6       \* bytes missing from the end of the first page
MaxSets == 2      \* set_data calls on one decoder
MaxDecodeGets == 2  \* get calls after one set_data

\* the counts of values of a page
DecodeCounts == {1, 3, 9, 32}

\* the columns read: a cut page for the PLAIN and DELTA_LENGTH_BYTE_ARRAY columns
DecodeKinds ==
  {k \in [encoding : Encodings, T : PhysicalTypes, pat : {1}, n : DecodeCounts,
          cut : 0..MaxCut] :
     /\ Supported(k.encoding, k.T)
     /\ k.cut > 0 => k.encoding \in {"PLAIN", "DELTA_LENGTH_BYTE_ARRAY"}}

\* the values of page c (0 the first, 1 the second) of column k
PageValues(k, c) == [i \in 1..k.n |-> Value(k, c, i)]

\* the two pages one encoder writes for column k, and the dictionary page
\* taken after both
DecodePages(k) ==
  Bind(Encoder_flush_buffer(k, Encoder_put(k, Encoder_new(k), PageValues(k, 0)).e),
    LAMBDA f1 :
      Bind(Encoder_flush_buffer(k, Encoder_put(k, f1.e, PageValues(k, 1)).e),
        LAMBDA f2 :
          [buf  |-> SubSeq(f1.buffer, 1, Max(0, Len(f1.buffer) - k.cut)),
           next |-> f2.buffer,
           dict |-> IF k.encoding = "PLAIN_DICTIONARY"
                    THEN DictEncoder_write_dict(f2.e).buffer ELSE <<>>,
           num_entries |-> IF k.encoding = "PLAIN_DICTIONARY"
                           THEN DictEncoder_num_entries(f2.e) ELSE 0,
           full |-> Len(f1.buffer)]))

\* the lengths of the buffers handed to get
DecodeGetLens(k) == {1, k.n, k.n + 1}

InitDecode ==
  /\ kind \in DecodeKinds
  /\ enc = <<>>
  /\ dec = Decoder_new(kind)
  /\ expected = <<>>
  /\ data = DecodePages(kind)
  /\ result = <<>>
  /\ last = NoCall
  /\ pc = "new"
  /\ cycle = 0
  /\ nputs = 0
  /\ ngets = 0
  /\ whole = [st |-> "ok", out |-> <<>>]
  /\ reader = NoReader

\* dict_decoder.set_dict(Box::new(PlainDecoder over the dictionary page))
DecodeSetDict ==
  /\ pc \in {"new", "nodict"}
  /\ kind.encoding = "PLAIN_DICTIONARY"
  /\ \E pd \in {PlainDecoder_set_data(PlainDecoder_new(kind.T, TypeLength),
                                      data.dict, data.num_entries)} :
       \E s \in {DictDecoder_set_dict(dec, pd.d, DefaultValue(kind.T))} :
         /\ dec' = s.d
         /\ pc' = AfterCall(s.st, IF pc = "new" THEN "dictset" ELSE "reading")
         /\ last' = [NoCall EXCEPT !.op = "set_dict", !.st = s.st]
  /\ UNCHANGED <<kind, enc, expected, data, result, cycle, nputs, ngets, whole, reader>>

\* the decoder has its page and, where it needs one, its dictionary
Ready(p) == p = "reading"

\* the decoder lacks its page or its dictionary
Unready(p) == p \in {"new", "dictset", "nodict"}

\* decoder.set_data(page, n) with the first page (c = 1) or the second
\* (c = 2), on a new decoder or on one that has decoded
DecodeSetData(c) ==
  /\ pc \in {"new", "dictset", "nodict", "reading"}
  /\ nputs < MaxSets
  /\ \E buf \in {IF c = 1 THEN data.buf ELSE data.next} :
       \E s \in {Decoder_set_data(kind, dec, buf, kind.n)} :
         /\ dec' = s.d
         /\ pc' = AfterCall(s.st, IF kind.encoding = "PLAIN_DICTIONARY"
                                      /\ pc \in {"new", "nodict"}
                                   THEN "nodict" ELSE "reading")
         /\ last' = [NoCall EXCEPT !.op = "set_data", !.st = s.st, !.len = c,
                                   !.before = Decoder_values_left(dec),
                                   !.after = Decoder_values_left(s.d)]
  /\ expected' = PageValues(kind, c - 1)
  /\ result' = <<>>
  /\ cycle' = c
  /\ nputs' = nputs + 1
  /\ ngets' = 0
  /\ UNCHANGED <<kind, enc, data, whole, reader>>

\* decoder.get(&mut out[..]) with out.len() = len, also on a decoder that
\* was given no page or no dictionary
DecodeGet(len) ==
  /\ pc \in {"new", "dictset", "nodict", "reading"}
  /\ ngets < MaxDecodeGets
  /\ \E g \in {Decoder_get(kind, dec, len)} :
       /\ dec' = g.d
       /\ result' = result \o g.out
       /\ pc' = AfterCall(g.st, pc)
       /\ last' = [op |-> "get", len |-> len, st |-> g.st, ret |-> g.ret,
                   before |-> Decoder_values_left(dec),
                   after |-> Decoder_values_left(g.d),
                   asked |-> last.asked + len, pos |-> 0, why |-> pc]
  /\ ngets' = ngets + 1
  /\ UNCHANGED <<kind, enc, expected, data, cycle, nputs, whole, reader>>

\* get_offset without its assertion
get_offset_unchecked(d) == [st |-> "ok", ret |-> DeltaBitPackDecoder_get_offset(d)]

\* DeltaBitPackDecoder::get_offset as a call that may abort
get_offset(d) ==
  IF ~d.initialized THEN [st |-> "panic", ret |-> 0]
  ELSE [st |-> "ok", ret |-> DeltaBitPackDecoder_get_offset(d)]

\* decoder.get_offset() on a DeltaBitPackDecoder
DecodeGetOffset ==
  /\ pc \in {"new", "reading"}
  /\ kind.encoding = "DELTA_BINARY_PACKED"
  /\ ngets < MaxDecodeGets
  /\ \E g \in {get_offset(dec)} :
       /\ pc' = AfterCall(g.st, pc)
       /\ last' = [NoCall EXCEPT !.op = "get_offset", !.st = g.st, !.ret = g.ret,
                                 !.asked = last.asked, !.why = pc]
  /\ ngets' = ngets + 1
  /\ UNCHANGED <<kind, enc, dec, expected, data, result, cycle, nputs, whole, reader>>

\* decoder.init_block() on a DeltaBitPackDecoder that was given no page
DecodeInitBlock ==
  /\ pc = "new"
  /\ kind.encoding = "DELTA_BINARY_PACKED"
  /\ \E b \in {init_block(dec)} :
       /\ dec' = b.d
       /\ pc' = AfterCall(b.st, pc)
       /\ last' = [NoCall EXCEPT !.op = "init_block", !.st = b.st, !.why = pc]
  /\ UNCHANGED <<kind, enc, expected, data, result, cycle, nputs, ngets, whole, reader>>

NextDecode ==
  \/ DecodeSetDict
  \/ \E c \in {1, 2} : DecodeSetData(c)
  \/ \E len \in DecodeGetLens(kind) : DecodeGet(len)
  \/ DecodeGetOffset
  \/ DecodeInitBlock

SpecDecode == InitDecode /\ [][NextDecode]_vars

\* the byte offsets of the first page of column k at which a value ends
PlainEnds(k) ==
  Bind([i \in 1..k.n |-> Len(PlainValueBytes(k.T, Value(k, 0, i)))], LAMBDA sizes :
      {SumTo(sizes, 1, j) : j \in 0..k.n})

\* the first page of the column ends in the middle of a value: too few bits
\* for the BOOL values, a PLAIN page ending off the end of a value, the
\* bytes of a DELTA_LENGTH_BYTE_ARRAY page fewer than its lengths add up to
EndsMidValue ==
  /\ kind.cut > 0
  /\ IF kind.encoding = "PLAIN" /\ kind.T = "BOOL" THEN 8 * Len(data.buf) < kind.n
     ELSE IF kind.encoding = "PLAIN" THEN Len(data.buf) \notin PlainEnds(kind)
     ELSE kind.encoding = "DELTA_LENGTH_BYTE_ARRAY"
          /\ kind.cut <= SumTo([i \in 1..kind.n |-> Len(Value(kind, 0, i))], 1, kind.n)

\* a get on the first page, given to a new decoder
GetOnFirstPage == last.op = "get" /\ Ready(last.why) /\ cycle = 1 /\ nputs = 1

\* C21: a get on a page that ends in the middle of a value does not abort,
\* returns no value the page does not hold, and returns an error once the
\* values asked for reach the cut.
C21_TruncatedIsError ==
  (EndsMidValue /\ GetOnFirstPage) =>
    /\ last.st # "panic"
    /\ IsPrefix(result, expected)
    /\ last.asked >= kind.n => last.st = "err"

----------------------------------------------------------------------------
(* Decoders of values and of levels used before they were given data        *)

\* decoder.get(&mut buffer[..]) on a LevelDecoder before set_data and
\* set_data_range
LevelGetNoData(len) ==
  /\ pc \in {"put", "consume", "flushed"}
  /\ \E g \in {LevelDecoder_get(dec, len)} :
       /\ dec' = g.d
       /\ result' = result \o g.out
       /\ pc' = AfterCall(g.st, pc)
       /\ last' = [op |-> "get", len |-> len, st |-> g.st, ret |-> g.ret,
                   before |-> dec.num_values, after |-> g.d.num_values,
                   asked |-> last.asked + len, pos |-> 0, why |-> "new"]
  /\ ngets' = ngets + 1
  /\ UNCHANGED <<kind, enc, expected, data, cycle, nputs, whole, reader>>

InitAnyDecoder == InitDecode \/ InitLevels

NextAnyDecoder ==
  \/ NextDecode
  \/ NextLevels
  \/ \E len \in LevelGetLens(kind) : LevelGetNoData(len)

SpecAnyDecoder == InitAnyDecoder /\ [][NextAnyDecoder]_vars

C23_LevelsLeftCounted ==
  (kind \in LevelKinds /\ last.op = "get" /\ last.st = "ok") =>
    /\ last.ret <= Min(last.before, last.len)
    /\ last.after = last.before - last.ret
    /\ last.after >= 0
    /\ Len(result) <= kind.n
    /\ last.before = 0 => last.ret = 0

\* nine one-bit levels in two bytes: the second get finds seven padding bits
\* and returns no level
C23_Witness ==
  /\ kind \in LevelKinds
  /\ kind.encoding = "BIT_PACKED" /\ kind.max_level = 1 /\ kind.n = 9
  /\ last.op = "get" /\ ngets = 2 /\ last.before = 0 /\ last.ret = 0
  /\ Len(result) = 9 /\ Len(data.buf) = 2

----------------------------------------------------------------------------
(* A level decoder given the bytes of consume() with a count of levels that *)
(* is not the count put                                                     *)

MaxLevelSets == 2   \* set_data calls with a count of the caller's choice

\* the counts of levels passed to set_data
LevelDataCounts == {1, 3, 1024}

\* decoder.set_data(m, data) on a new decoder or on one that has decoded
LevelSetDataOf(m) ==
  /\ pc \in {"flushed", "decode"}
  /\ cycle < MaxLevelSets
  /\ \E s \in {LevelDecoder_set_data(dec, m, data.buf)} :
       /\ dec' = s.d
       /\ pc' = AfterCall(s.st, "decode")
       /\ last' = [NoCall EXCEPT !.op = "set_data", !.st = s.st, !.ret = s.ret,
                                 !.len = m, !.after = s.d.num_values]
  /\ result' = <<>>
  /\ ngets' = 0
  /\ cycle' = cycle + 1
  /\ UNCHANGED <<kind, enc, expected, data, nputs, whole, reader>>

NextLevelData ==
  \/ NextLevels
  \/ \E m \in LevelDataCounts : LevelSetDataOf(m)

SpecLevelData == InitLevels /\ [][NextLevelData]_vars

\* the bits of a level: the least b with max_level + 1 <= 2^b
LevelBitWidth(max_level) ==
  CHOOSE b \in 0..16 : max_level + 1 <= 2 ^ b /\ \A c \in 0..(b - 1) : max_level + 1 > 2 ^ c

\* C24: set_data returns the number of bytes of the level stream: for RLE 4
\* plus the little-endian length in the first four bytes, for BIT_PACKED
\* min(ceil(num_buffered_values * bit_width / 8), data.len()).
C24_SetDataReturnsBytes ==
  (last.op = "set_data" /\ last.st = "ok") =>
    last.ret = IF kind.encoding = "RLE"
               THEN 4 + data.buf[1] + 256 * data.buf[2] + 65536 * data.buf[3]
                      + 16777216 * data.buf[4]
               ELSE Min((last.len * LevelBitWidth(kind.max_level) + 7) \div 8,
                        Len(data.buf))

\* 1024 levels announced over the one byte that holds seven one-bit levels
C24_Witness ==
  /\ kind.encoding = "BIT_PACKED" /\ kind.max_level = 1 /\ kind.n = 7
  /\ last.op = "set_data" /\ last.st = "ok" /\ last.len = 1024 /\ last.ret = 1

----------------------------------------------------------------------------
(* A level encoder given batch after batch, its buffer sized for one        *)

MaxLevelPuts == 420   \* put calls on one level encoder

\* the level encoder with room for every put
Roomy(e) ==
  IF e.encoding = "RLE" THEN [e EXCEPT !.encoder.bit_writer.max_bytes = 1000000]
  ELSE [e EXCEPT !.encoder.max_bytes = 1000000]

\* the bytes a level encoder has written
LevelBytes(e) ==
  IF e.encoding = "RLE" THEN BitWriter_written(e.encoder.bit_writer)
  ELSE BitWriter_written(e.encoder)

\* encoder.put(&levels[..]) after a put that returned Ok, with the n levels
\* again; whole follows an encoder with room for every put that is given the
\* same levels
LevelPutAgain ==
  /\ pc \in {"consume", "again"}
  /\ nputs < MaxLevelPuts
  /\ \E levels \in {Levels(kind)} :
       \E p \in {LevelEncoder_put(enc, levels)} :
         \E roomy \in {IF pc = "consume" THEN Roomy(enc) ELSE whole.e} :
           /\ enc' = p.e
           /\ whole' = [st |-> p.st, out |-> <<>>,
                        e  |-> LevelEncoder_put(roomy, SubSeq(levels, 1, p.ret)).e]
           /\ pc' = IF p.st = "ok" THEN "again" ELSE "enc_err"
           /\ last' = [NoCall EXCEPT !.op = "put", !.len = Len(levels), !.st = p.st,
                                     !.ret = p.ret]
  /\ nputs' = nputs + 1
  /\ UNCHANGED <<kind, dec, expected, data, result, cycle, ngets, reader>>

NextLevelPuts ==
  \/ NextLevels
  \/ LevelPutAgain

SpecLevelPuts == InitLevels /\ [][NextLevelPuts]_vars

\* the bytes written by the puts that returned Ok are those of an encoder
\* with room for every put: no level counted is missing
PutsStored ==
  (last.op = "put" /\ last.st = "ok" /\ pc = "again") =>
    LevelBytes(enc) = LevelBytes(whole.e)

\* a put of a batch that is not empty has failed by the time MaxLevelPuts
\* puts were made
PutsOverflow == (kind.n > 0 /\ nputs >= MaxLevelPuts) => pc = "enc_err"

----------------------------------------------------------------------------
(* A dictionary encoder given enough distinct values for its hash table to  *)
(* double                                                                   *)

MaxDictPuts == 4    \* put calls on one dictionary encoder

\* the lengths of the slices handed to put
DictPutLens == {1, 40, 400}

\* the columns: the i-th value put is drawn from (i * step) % span
DictKinds == [T : {"INT32", "BYTE_ARRAY", "FLOAT"}, span : {5, 800, 1500}, step : {1, 7}]

\* the x-th value of a column of type T: three values to one slot of the
\* hash, so that every put probes past the slot of the hash and the slots
\* fill up to the load at which the table doubles; a FLOAT column holds NaN,
\* 0.0 and -0.0 among its values
DictValueOf(T, x) ==
  IF T = "INT32" THEN <<2 * (x \div 3) + ((x % 3) % 2), (x % 3) \div 2>>
  ELSE IF T = "BYTE_ARRAY"
  THEN Bind(2 * (x \div 3) + ((x % 3) % 2), LAMBDA s :
         (IF x % 3 = 2 THEN <<0>> ELSE <<>>) \o <<s % 255>> \o Repeat(255, s \div 255))
  ELSE IF x % 50 = 7 THEN <<0, 32704>>
  ELSE IF x % 10 = 1 THEN <<0, 0>>
  ELSE IF x % 10 = 6 THEN <<0, 32768>>
  ELSE <<2 * (x \div 3) + ((x % 3) % 2), 16256 + ((x % 3) \div 2)>>

\* the i-th value put into the dictionary encoder of column k
DictValue(k, i) == DictValueOf(k.T, (i * k.step) % k.span)

InitDict ==
  /\ kind \in DictKinds
  /\ enc = DictEncoder_new(kind.T)
  /\ dec = <<>>
  /\ expected = <<>>
  /\ data = NoData
  /\ result = <<>>
  /\ last = NoCall
  /\ pc = "put"
  /\ cycle = 0
  /\ nputs = 0
  /\ ngets = 0
  /\ whole = [st |-> "ok", out |-> <<>>]
  /\ reader = NoReader

\* encoder.put(&values[..]) with the next len values of the column; cycle
\* counts the values put
DictPut(len) ==
  /\ pc = "put"
  /\ nputs < MaxDictPuts
  /\ \E p \in {DictEncoder_put(enc, [i \in 1..len |-> DictValue(kind, cycle + i)])} :
       /\ enc' = p.e
       /\ pc' = IF p.ok THEN "put" ELSE "enc_err"
       /\ last' = [NoCall EXCEPT !.op = "put", !.len = len,
                                 !.st = IF p.ok THEN "ok" ELSE "err",
                                 !.before = Len(enc.uniques),
                                 !.after = Len(p.e.uniques)]
  /\ cycle' = cycle + len
  /\ nputs' = nputs + 1
  /\ UNCHANGED <<kind, dec, expected, data, result, ngets, whole, reader>>

NextDict == \E len \in DictPutLens : DictPut(len)

SpecDict == InitDict /\ [][NextDict]_vars

RECURSIVE ChainEnd(_, _, _, _, _, _)
\* the first slot that is empty or holds index among the slots lo..hi steps
\* after slot j, wrapping at size; -1 when there is none
ChainEnd(slots, size, j, index, lo, hi) ==
  IF lo = hi
  THEN IF slots[(j + lo) % size] \in {HASH_SLOT_EMPTY, index}
       THEN (j + lo) % size ELSE -1
  ELSE Bind(ChainEnd(slots, size, j, index, lo, (lo + hi) \div 2), LAMBDA found :
         IF found # -1 THEN found
         ELSE ChainEnd(slots, size, j, index, ((lo + hi) \div 2) + 1, hi))

\* slot j or a slot after it holds index, with no empty slot before it
ProbeFinds(slots, size, j, index) ==
  Bind(ChainEnd(slots, size, j, index, 0, size - 1), LAMBDA found :
    found # -1 /\ slots[found] = index)

\* the hash table of a dictionary encoder: a power of two slots,
\* mod_bitmask one less, every index of uniques in one slot that linear
\* probing from the slot of its hash reaches, no more entries than 0.7 of
\* the slots
HashTableInv(e) ==
  /\ \E b \in 0..20 : e.hash_table_size = 2 ^ b
  /\ e.mod_bitmask = e.hash_table_size - 1
  /\ DOMAIN e.hash_slots = 0..(e.hash_table_size - 1)
  /\ Cardinality({j \in DOMAIN e.hash_slots : e.hash_slots[j] # HASH_SLOT_EMPTY})
       = Len(e.uniques)
  /\ \A index \in 0..(Len(e.uniques) - 1) :
       ProbeFinds(e.hash_slots, e.hash_table_size,
                  hash(e.uniques[index + 1]) % e.hash_table_size, index)
  /\ 10 * Len(e.uniques) <= 7 * e.hash_table_size

\* the values put so far that are not NaN, the zeros of a FLOAT column as one
ValuesPut ==
  {IF kind.T = "FLOAT" /\ IsFloatZero(DictValue(kind, i)) THEN <<0, 0>>
   ELSE DictValue(kind, i) :
     i \in {i \in 1..cycle : ~(kind.T = "FLOAT" /\ IsNaN("FLOAT", DictValue(kind, i)))}}

\* the NaN put so far, each time it was put
NaNsPut ==
  SelectSeq([i \in 1..cycle |-> i],
            LAMBDA i : kind.T = "FLOAT" /\ IsNaN("FLOAT", DictValue(kind, i)))

----------------------------------------------------------------------------
(* The blocks DeltaBitPackEncoder::flush_block_values writes.               *)

\* the encoder on which put calls flush_block_values: the block holds 127
\* deltas and the next value of the column fills it
BeforeFlushInPut(e, value) ==
  [e EXCEPT !.deltas[e.block_size] = subtract(e.T, as_i64(e.T, value), e.current_value),
            !.current_value = as_i64(e.T, value),
            !.values_in_block = e.block_size]

\* the encoders of this state on which flush_block_values writes a block:
\* the one flush_buffer would be called on, and the one inside the next put
FlushedEncoders ==
  IF kind.encoding # "DELTA_BINARY_PACKED" \/ pc \notin {"put", "decode"} THEN {}
  ELSE (IF enc.values_in_block > 0 THEN {enc} ELSE {})
       \cup (IF enc.values_in_block = enc.block_size - 1
             THEN {BeforeFlushInPut(enc, Value(kind, cycle, Len(expected) + 1))}
             ELSE {})

\* the deltas of miniblock i (0-based) of the block of e
MiniBlockDeltas(e, i) ==
  {e.deltas[p] : p \in (i * e.mini_block_size + 1)..
                       Min((i + 1) * e.mini_block_size, e.values_in_block)}

\* the least delta of the block of e
LeastDelta(e) ==
  CHOOSE m \in {e.deltas[p] : p \in 1..e.values_in_block} :
    \A p \in 1..e.values_in_block : ~W64Less(e.deltas[p], m)

\* the width bytes of the miniblocks in the block flush_block_values writes
\* for e: the block starts at the next byte of the writer with the zigzag VLQ
\* of the least delta, and the width bytes follow it
WidthBytes(e) ==
  Bind(flush_block_values(e).e.bit_writer.bytes, LAMBDA bytes :
    Bind(Len(BitWriter_flush(e.bit_writer).bytes)
           + Len(VlqBytes(ZigZag(LeastDelta(e)))), LAMBDA at :
      [i \in 1..e.num_mini_blocks |-> bytes[at + i]]))

\* the width byte of each miniblock that holds values is the number of bits
\* of its greatest delta less the least delta of the block, every packed
\* value of the miniblock fits in it, and it is at most the width of the
\* type; the width byte of a miniblock that holds no values is 0
BlockWidthsOk(e) ==
  Bind(WidthBytes(e), LAMBDA widths :
    Bind(LeastDelta(e), LAMBDA min_delta :
      \A i \in 0..(e.num_mini_blocks - 1) :
        IF MiniBlockDeltas(e, i) = {} THEN widths[i + 1] = 0
        ELSE /\ \E max_delta \in MiniBlockDeltas(e, i) :
                  /\ \A d \in MiniBlockDeltas(e, i) : ~W64Less(max_delta, d)
                  /\ widths[i + 1] = num_required_bits(subtract_u64(e.T, max_delta, min_delta))
             /\ \A d \in MiniBlockDeltas(e, i) :
                  num_required_bits(subtract_u64(e.T, d, min_delta)) <= widths[i + 1]
             /\ widths[i + 1] <= (IF e.T = "INT32" THEN 32 ELSE 64)))

\* C27: in every block flush_block_values writes, on a new encoder or on one
\* used again after flush_buffer, the width byte of a miniblock with values
\* is num_required_bits of its greatest delta less the least delta of the
\* block as an unsigned wrapping difference, every packed value is below 2 to
\* that width, the width is at most 32 for INT32 and 64 for INT64, and the
\* width bytes of the miniblocks without values are 0.
C27_MiniBlockWidths == \A e \in FlushedEncoders : flush_block_values(e).ok /\ BlockWidthsOk(e)

\* a full block of INT32 deltas that span the 32 bits, on an encoder that
\* has been flushed once
C27_Witness ==
  /\ kind = [encoding |-> "DELTA_BINARY_PACKED", T |-> "INT32", pat |-> 1]
  /\ cycle = 1 /\ pc = "put"
  /\ enc.values_in_block = enc.block_size - 1
  /\ \E e \in FlushedEncoders :
       e.values_in_block = e.block_size /\ WidthBytes(e) = <<32, 32, 32, 32>>

----------------------------------------------------------------------------
(* DELTA_BINARY_PACKED pages with any header, handed to set_data.           *)

MaxHeaderGets == 2    \* get calls after one set_data

\* the headers: block size, miniblocks per block and total value count
HeaderKinds ==
  [T : {"INT32", "INT64"}, block_size : {8, 100, 128, 130},
   num_mini_blocks : {0, 1, 3, 4, 8}, total : {0, 1, 5}]

\* the page: the header, first value 3, and blocks of deltas that are all 0
\* (least delta 0 and one width byte of 0 for each miniblock)
HeaderPage(k) ==
  VlqBytes(NatToW64(k.block_size)) \o VlqBytes(NatToW64(k.num_mini_blocks))
    \o VlqBytes(NatToW64(k.total)) \o VlqBytes(ZigZag(NatToW64(3)))
    \o <<0>> \o Repeat(0, k.num_mini_blocks)

InitHeaders ==
  /\ kind \in HeaderKinds
  /\ enc = <<>>
  /\ dec = DeltaBitPackDecoder_new(kind.T)
  /\ expected = <<>>
  /\ data = [NoData EXCEPT !.buf = HeaderPage(kind)]
  /\ result = <<>>
  /\ last = NoCall
  /\ pc = "new"
  /\ cycle = 0
  /\ nputs = 0
  /\ ngets = 0
  /\ whole = [st |-> "ok", out |-> <<>>]
  /\ reader = NoReader

\* decoder.set_data(page, 0)
HeaderSetData ==
  /\ pc = "new"
  /\ \E s \in {DeltaBitPackDecoder_set_data(dec, data.buf)} :
       /\ dec' = s.d
       /\ pc' = AfterCall(s.st, "reading")
       /\ last' = [NoCall EXCEPT !.op = "set_data", !.st = s.st,
                                 !.after = Decoder_values_left(s.d)]
  /\ UNCHANGED <<kind, enc, expected, data, result, cycle, nputs, ngets, whole, reader>>

\* decoder.get(&mut out[..]) with out.len() = len
HeaderGet(len) ==
  /\ pc = "reading"
  /\ ngets < MaxHeaderGets
  /\ \E g \in {DeltaBitPackDecoder_get(dec, len)} :
       /\ dec' = g.d
       /\ result' = result \o g.out
       /\ pc' = AfterCall(g.st, "reading")
       /\ last' = [NoCall EXCEPT !.op = "get", !.len = len, !.st = g.st, !.ret = g.ret,
                                 !.before = Decoder_values_left(dec),
                                 !.after = Decoder_values_left(g.d)]
  /\ ngets' = ngets + 1
  /\ UNCHANGED <<kind, enc, expected, data, cycle, nputs, whole, reader>>

NextHeaders ==
  \/ HeaderSetData
  \/ \E len \in {1, 4} : HeaderGet(len)

SpecHeaders == InitHeaders /\ [][NextHeaders]_vars

\* the header breaks a constraint of the format: no miniblocks, a block size
\* that is not a multiple of their number, or miniblocks whose size is not a
\* multiple of 8
Malformed(k) ==
  \/ k.num_mini_blocks = 0
  \/ k.block_size % k.num_mini_blocks # 0
  \/ (k.block_size \div k.num_mini_blocks) % 8 # 0

\* C28: set_data of a DeltaBitPackDecoder returns an error, and does not
\* abort, when the header of the page has num_miniblocks = 0, a block_size
\* that num_miniblocks does not divide, or a values_per_miniblock that is not
\* a multiple of 8.
C28_MalformedHeaderIsError ==
  (last.op = "set_data" /\ Malformed(kind)) => last.st = "err" /\ pc = "dec_err"

----------------------------------------------------------------------------
(* The bytes flush_buffer returns, against the values put.                  *)

\* the bytes of the values put in one cycle when no write is refused: the
\* booleans packed from the least bit up, and the page of a delta encoder
\* whose bit writer has room for any block
AllValuesBytes(k, values) ==
  IF k.encoding = "PLAIN"
  THEN PackBytes(values \o Repeat(0, (8 - (Len(values) % 8)) % 8))
  ELSE DeltaBitPackEncoder_flush_buffer(
         DeltaBitPackEncoder_put(
           [DeltaBitPackEncoder_new(k.T) EXCEPT
              !.bit_writer.max_bytes = 2 * MAX_BIT_WRITER_SIZE], values).e).buffer

\* C29: for PlainEncoder<BoolType> and DeltaBitPackEncoder, whatever the
\* number of values and of put calls, a flush_buffer that returns Ok after
\* puts that returned Ok returns bytes that hold every value put since the
\* last flush; a write the bit writer refuses shows as an error of put or of
\* flush_buffer.
C29_PutNeverDiscards ==
  ( /\ \/ kind.encoding = "PLAIN" /\ kind.T = "BOOL"
       \/ kind.encoding = "DELTA_BINARY_PACKED"
    /\ last.op = "flush_buffer" /\ last.st = "ok" )
  => data.buf = AllValuesBytes(kind, expected)

----------------------------------------------------------------------------
(* A decoder given a second page, against a new decoder given that page.    *)

\* what a caller sees of decoder d in two gets of len1 and len2 slots:
\* values_left() before and after each get, its outcome, the count it
\* returns and the values it stores
Observed(k, d, len1, len2) ==
  Bind(Decoder_get(k, d, len1), LAMBDA g1 :
    <<Decoder_values_left(d), g1.st, g1.ret, g1.out, Decoder_values_left(g1.d)>>
      \o (IF g1.st # "ok" THEN <<>>
          ELSE Bind(Decoder_get(k, g1.d, len2), LAMBDA g2 :
                 <<g2.st, g2.ret, g2.out, Decoder_values_left(g2.d)>>)))

\* a new decoder of column k, given the dictionary if with_dict, after
\* set_data(buf, n)
FreshDecoder(k, with_dict, buf) ==
  Decoder_set_data(k,
    IF with_dict
    THEN DictDecoder_set_dict(
           Decoder_new(k),
           PlainDecoder_set_data(PlainDecoder_new(k.T, TypeLength),
                                 data.dict, data.num_entries).d,
           DefaultValue(k.T)).d
    ELSE Decoder_new(k),
    buf, k.n)

\* the page of the last set_data
PageSet == IF cycle = 1 THEN data.buf ELSE data.next

\* the decoder has just been given a page after an earlier one
SetDataAgain == last.op = "set_data" /\ nputs = 2

====
